---- MODULE Spec2Model ----
(***************************************************************************)
(* Model of the assessment analytics and recommendation-selection engine:  *)
(*   agents/agent1_test_context.py       get_student_test_history          *)
(*   agents/agent2_incorrect_questions.py get_incorrect_question_cases     *)
(*   agents/agent4_course_recommendation.py _select_final_courses          *)
(*   agents/agent5_user_facing_response.py generate_user_facing_response   *)
(*   agents/agent3_weakness_extraction.py extract_weaknesses_and_patterns  *)
(*   agents/agent4_course_recommendation.py recommend_courses_for_student  *)
(*   pipeline/run_pipeline.py             run_full_pipeline                *)
(*   agents/agent4_course_recommendation.py _llm_rerank_courses            *)
(*   agents/agent5_user_facing_response.py _domain_improvement_summaries   *)
(*   agents/agent3_weakness_extraction.py convert_llm_weaknesses_for_agent3*)
(*   main.py                              run_pipeline_v1                  *)
(* Each component has its own specification over the shared variables.     *)
(***************************************************************************)
EXTENDS Integers, Sequences, FiniteSets, TLC

VARIABLES
    \* ---- CourseSelector (agent4) ----
    sel_pc,               \* "start" | "done"
    all_recommendations,  \* the candidate list handed to _select_final_courses
    perm_recommendations, \* a permutation of all_recommendations
    max_total,            \* the max_total argument
    sel_out,              \* _select_final_courses(all_recommendations, max_total)
    perm_out,             \* _select_final_courses(perm_recommendations, max_total)
    \* ---- AttemptSelector / aggregation / report (agent1, agent2, agent5) ----
    pc,                   \* "idle" | "start" | "agent1" | "agent2" | "done"
    df,                   \* exam-result table (TEST_RESULT_PATH)
    df_tq,                \* question-result table (TQ_PATH)
    df_ta,                \* answer-result table (TA_PATH)
    df_q,                 \* question bank (QUESTION_PATH)
    agent1_out,           \* result of get_student_test_history
    agent2_out,           \* result of get_incorrect_question_cases
    llm_reply,            \* what the narrative generation call did
    agent5_out,           \* result of generate_user_facing_response
    \* ---- run_full_pipeline (agent3, agent4 and the pipeline's own state) ----
    weakness_reply,       \* what the weakness generation call did
    weaknesses_llm,       \* result of extract_weaknesses_and_patterns
    course_rec_output,    \* result of recommend_courses_for_student, or None
    calls,                \* the external requests issued so far, in order
    stages,               \* the stages run_full_pipeline has invoked so far
    ulids,                \* the ids ulid.new() has produced in this run
    run_log,              \* the entries _write_run_log has appended
    pipeline_result,      \* what run_full_pipeline returned, or that it raised
    \* ---- recommend_courses_for_student as one call (agent4) ----
    rec_pc,               \* "idle" | "start" | "done"
    rec_weaknesses_raw,   \* the weaknesses_raw argument
    rec_search,           \* what _query_vertex_index did for each weakness
    rec_rerank_enabled,   \* the rerank_enabled argument
    rec_rerank,           \* what the re-ranking call did for each bucket
    rec_selected,         \* selected_recommendations before re-ranking
    rec_reranked,         \* the list _llm_rerank_courses returned
    rec_response,         \* what recommend_courses_for_student returned or raised
    \* ---- _domain_improvement_summaries as one call (agent5) ----
    dom_pc,               \* "idle" | "start" | "done"
    dom_performance,      \* the domain_performance argument
    dom_summaries,        \* the list _domain_improvement_summaries returned
    \* ---- run_pipeline_v1 (main.py) ----
    req_pc,               \* per request: "arrived" | "running" | "except" | "finally"
                          \*              | "done" | "rejected"
    req_corr,             \* per request: its correlation id
    req_status,           \* per request: the HTTP status set so far (0: none)
    active_correlation_ids, \* _active_correlation_ids
    \* ---- convert_llm_weaknesses_for_agent3, tier by tier (agent3) ----
    parse_pc,             \* "idle" | "json" | "literal" | "regex" | "returned"
    parse_text,           \* the raw_text argument
    parse_tried,          \* the tiers tried so far, in order
    parse_out             \* the returned list

selVars == <<sel_pc, all_recommendations, perm_recommendations, max_total,
             sel_out, perm_out>>
examVars == <<pc, df, df_tq, df_ta, df_q, agent1_out, agent2_out, llm_reply,
              agent5_out>>
pipeVars == <<weakness_reply, weaknesses_llm, course_rec_output, calls, stages,
              ulids, run_log, pipeline_result>>
recVars == <<rec_pc, rec_weaknesses_raw, rec_search, rec_rerank_enabled, rec_rerank,
             rec_selected, rec_reranked, rec_response>>
domVars == <<dom_pc, dom_performance, dom_summaries>>
guardVars == <<req_pc, req_corr, req_status, active_correlation_ids>>
parseVars == <<parse_pc, parse_text, parse_tried, parse_out>>
vars == <<selVars, examVars, pipeVars, recVars, domVars, guardVars, parseVars>>

(***************************************************************************)
(* Python values.  A value carries its kind, so that truthiness, == and    *)
(* int() can be computed as Python computes them on a None, a scalar or a  *)
(* dict.                                                                   *)
(***************************************************************************)
PyNone == [tag |-> "none"]
Scalar(v) == [tag |-> "scalar", val |-> v]
Dict(f) == [tag |-> "dict", val |-> f]

\* bool(v): None is false, a dict is true iff it has a key; the scalars of
\* the model (ids, attempt numbers) are non-zero.
Truthy(v) ==
    IF v.tag = "none" THEN FALSE
    ELSE IF v.tag = "dict" THEN DOMAIN v.val # {}
    ELSE TRUE

\* a == b for one cell of a Series: a scalar never equals a dict.
PyEq(a, b) == a.tag = "scalar" /\ b.tag = "scalar" /\ a.val = b.val

(***************************************************************************)
(* Bounds                                                                  *)
(***************************************************************************)
MaxCands == 3       \* candidates in one call of _select_final_courses
MaxTotalArg == 3    \* max_total ranges over 1..MaxTotalArg

CourseIds == {1, 2, 3}      \* course ids returned by the similarity search
WeaknessIds == {1, 2}       \* weakness ids of the run
ScoreLevels == {1, 2, 3}    \* scores, as ordered levels (a larger level is a larger score)

(***************************************************************************)
(* Generic sequence helpers                                                *)
(***************************************************************************)
Range(s) == {s[i] : i \in 1..Len(s)}

Prefix(s, n) == SubSeq(s, 1, IF n < Len(s) THEN n ELSE Len(s))

SeqsUpTo(S, n) == UNION {[1..k -> S] : k \in 0..n}

\* The transpositions of 1..n, and the identity.  They generate every
\* permutation, and the candidate lists of Init are closed under permutation.
Swaps(n) ==
    {[k \in 1..n |-> k]} \cup
    {[k \in 1..n |-> IF k = i THEN j ELSE IF k = j THEN i ELSE k] :
        i \in 1..n, j \in 1..n}

(***************************************************************************)
(* agent4: CourseScore candidates.  A CourseScore is compared by value     *)
(* (dataclass equality); course fields and the reason string are functions *)
(* of the course id and the weakness, so (course, weakness_id, score)      *)
(* determines the value.                                                   *)
(***************************************************************************)
CourseScore == [course : CourseIds, weakness_id : WeaknessIds, score : ScoreLevels]

\* list.sort(key=lambda cs: cs.score, reverse=True): stable, descending.
RECURSIVE InsertDesc(_, _)
InsertDesc(sorted, rec) ==
    IF sorted = << >> THEN <<rec>>
    ELSE IF Head(sorted).score >= rec.score
         THEN <<Head(sorted)>> \o InsertDesc(Tail(sorted), rec)
         ELSE <<rec>> \o sorted

RECURSIVE SortDescFrom(_, _)
SortDescFrom(recs, acc) ==
    IF recs = << >> THEN acc
    ELSE SortDescFrom(Tail(recs), InsertDesc(acc, Head(recs)))

\* Mutant: the sort is left out.
sort_left_out(recs) == recs

sort_by_score_desc(recs) == SortDescFrom(recs, << >>)

\* _dedupe_by_course: keep the first entry of every course id.
RECURSIVE DedupeFrom(_, _, _)
DedupeFrom(recs, seen, unique) ==
    IF recs = << >> THEN unique
    ELSE IF Head(recs).course \in seen
         THEN DedupeFrom(Tail(recs), seen, unique)
         ELSE DedupeFrom(Tail(recs), seen \cup {Head(recs).course},
                         Append(unique, Head(recs)))

dedupe_by_course(recs) == DedupeFrom(recs, {}, << >>)

\* Mutant: a later candidate of equal score replaces the best.
better_or_equal(rec, best) == rec.score >= best.score

\* rec.score > best.score: a later candidate replaces the best only when
\* strictly better.
Better(rec, best) == rec.score > best.score

\* The loop filling top_per_weakness.  The dict keeps insertion order: a
\* weakness keeps the position of its first candidate, its value is replaced
\* in place.
RECURSIVE TopFrom(_, _)
TopFrom(recs, top) ==
    IF recs = << >> THEN top
    ELSE LET rec == Head(recs)
             pos == {i \in 1..Len(top) : top[i].weakness_id = rec.weakness_id}
         IN IF pos = {}
            THEN TopFrom(Tail(recs), Append(top, rec))
            ELSE LET i == CHOOSE k \in pos : TRUE
                 IN IF Better(rec, top[i])
                    THEN TopFrom(Tail(recs), [top EXCEPT ![i] = rec])
                    ELSE TopFrom(Tail(recs), top)

top_per_weakness(recs) == TopFrom(recs, << >>)

\* [rec for rec in all_recommendations if rec not in selected]
not_selected(recs, selected) == SelectSeq(recs, LAMBDA rec : rec \notin Range(selected))

\* Mutant: the fill is not cut to the remaining slots.
fill_slots_uncut(selected, remaining, remaining_slots) == selected \o remaining

\* selected + remaining[:remaining_slots]
fill_slots(selected, remaining, remaining_slots) ==
    selected \o Prefix(remaining, remaining_slots)

select_final_courses(recs, maxTotal) ==
    IF recs = << >> THEN << >>
    ELSE LET selected == sort_by_score_desc(dedupe_by_course(top_per_weakness(recs)))
         IN IF Len(selected) >= maxTotal
            THEN Prefix(selected, maxTotal)
            ELSE LET remaining_slots == maxTotal - Len(selected)
                     remaining == sort_by_score_desc(
                                     dedupe_by_course(not_selected(recs, selected)))
                 IN fill_slots(selected, remaining, remaining_slots)

Permute(s, p) == [i \in 1..Len(s) |-> s[p[i]]]

SelInit ==
    /\ sel_pc = "start"
    /\ all_recommendations \in SeqsUpTo(CourseScore, MaxCands)
    /\ max_total \in 1..MaxTotalArg
    /\ perm_recommendations = << >>
    /\ sel_out = << >>
    /\ perm_out = << >>

ExamIdle ==
    /\ pc = "idle"
    /\ df = << >>
    /\ df_tq = << >>
    /\ df_ta = << >>
    /\ df_q = << >>
    /\ agent1_out = [tag |-> "none"]
    /\ agent2_out = [tag |-> "none"]
    /\ llm_reply = "none"
    /\ agent5_out = [tag |-> "none"]

PipeIdle ==
    /\ weakness_reply = [tag |-> "none"]
    /\ weaknesses_llm = << >>
    /\ course_rec_output = [tag |-> "none"]
    /\ calls = << >>
    /\ stages = << >>
    /\ ulids = << >>
    /\ run_log = << >>
    /\ pipeline_result = [tag |-> "none"]

ParseIdle ==
    /\ parse_pc = "idle"
    /\ parse_text = [tag |-> "none"]
    /\ parse_tried = << >>
    /\ parse_out = << >>

DomIdle ==
    /\ dom_pc = "idle"
    /\ dom_performance = [tag |-> "none"]
    /\ dom_summaries = << >>

GuardIdle ==
    /\ req_pc = << >>
    /\ req_corr = << >>
    /\ req_status = << >>
    /\ active_correlation_ids = {}

RecIdle ==
    /\ rec_pc = "idle"
    /\ rec_weaknesses_raw = << >>
    /\ rec_search = << >>
    /\ rec_rerank_enabled = FALSE
    /\ rec_rerank = << >>
    /\ rec_selected = << >>
    /\ rec_reranked = << >>
    /\ rec_response = [tag |-> "none"]

\* One call of _select_final_courses on the candidate list and one on the
\* list with two of its entries exchanged.
SelectFinalCourses ==
    /\ sel_pc = "start"
    /\ \E p \in Swaps(Len(all_recommendations)) :
          /\ perm_recommendations' = Permute(all_recommendations, p)
          /\ perm_out' = select_final_courses(Permute(all_recommendations, p), max_total)
    /\ sel_out' = select_final_courses(all_recommendations, max_total)
    /\ sel_pc' = "done"
    /\ UNCHANGED <<all_recommendations, max_total>>
    /\ UNCHANGED examVars
    /\ UNCHANGED pipeVars
    /\ UNCHANGED recVars
    /\ UNCHANGED <<domVars, guardVars, parseVars>>

SpecSelInit == SelInit /\ ExamIdle /\ PipeIdle /\ RecIdle /\ DomIdle /\ GuardIdle /\ ParseIdle
SpecSelNext == SelectFinalCourses
SpecSel == SpecSelInit /\ [][SpecSelNext]_vars

(***************************************************************************)
(* agent1: get_student_test_history                                        *)
(***************************************************************************)
MaxAttemptRows == 3   \* rows of the exam-result table in SpecA1

\* The request's test_id and student_id, and the ids found in the table.
test_id == "t1"
student_id == "u1"
UserIds == {"u1", "u2"}
ContentIds == {"t1", "t2"}
AttemptNumbers == {1, 2, 3}
Timestamps == {1, 2}          \* createdAt, as ordered instants

\* The columns of CORE_COLS that later stages read.  (totalAttempts,
\* durationTakenMs and status are copied the same way and read by no stage
\* modelled here.)
CORE_COLS == {"id", "examContentId", "userId", "attemptNumber",
              "earnedScore", "totalScore", "createdAt"}

\* A row of the exam-result table whose id is its position in the file.
AttemptRow(i, user, content, number, created) ==
    [id |-> i, userId |-> user, examContentId |-> content,
     attemptNumber |-> number, createdAt |-> created,
     earnedScore |-> 1, totalScore |-> 2]

\* _serialize_record: a pd.Timestamp value becomes its ISO string, any other
\* value is kept.  (No value of CORE_COLS is a Timestamp: createdAt is read
\* from the CSV as text and testTakenDT is not in CORE_COLS.)
serialize_record(record) ==
    Dict([c \in DOMAIN record.val |->
            IF record.val[c].tag = "timestamp"
            THEN Scalar(record.val[c].val)
            ELSE record.val[c]])

\* Series.to_dict() of one row: {column: value}.
series_to_dict(d, label) == Dict([c \in CORE_COLS |-> Scalar(d[label][c])])

\* DataFrame.to_dict() of a slice: {column: {index label: value}}.
frame_to_dict(d, labels) ==
    Dict([c \in CORE_COLS |-> Dict([l \in Range(labels) |-> d[l][c]])])

\* Mutant: the order looks at the creation timestamp only.
attempt_before_by_time(a, b) == a.createdAt > b.createdAt

\* Order of sort_values(["attemptNumber", "testTakenDT"], ascending=[False,
\* False]): a comes strictly before b.
attempt_before(a, b) ==
    \/ a.attemptNumber > b.attemptNumber
    \/ a.attemptNumber = b.attemptNumber /\ a.createdAt > b.createdAt

\* The sort is stable: rows with equal keys keep the order of the file.
RECURSIVE InsertAttempt(_, _, _)
InsertAttempt(d, sorted, l) ==
    IF sorted = << >> THEN <<l>>
    ELSE IF attempt_before(d[l], d[Head(sorted)])
         THEN <<l>> \o sorted
         ELSE <<Head(sorted)>> \o InsertAttempt(d, Tail(sorted), l)

RECURSIVE SortAttemptsFrom(_, _, _)
SortAttemptsFrom(d, labels, acc) ==
    IF labels = << >> THEN acc
    ELSE SortAttemptsFrom(d, Tail(labels), InsertAttempt(d, acc, Head(labels)))

sort_attempts(d, labels) == SortAttemptsFrom(d, labels, << >>)

Labels(d) == [i \in 1..Len(d) |-> i]

\* Mutant: every earlier attempt is kept as history.
history_slice_all(sorted) == SubSeq(sorted, 2, Len(sorted))

\* df_student_test_sorted.iloc[1:2]
history_slice(sorted) == SubSeq(sorted, 2, IF Len(sorted) < 2 THEN Len(sorted) ELSE 2)

\* df[df["userId"] == student_id]
filter_student(d, student) == SelectSeq(Labels(d), LAMBDA l : d[l].userId = student)

\* Mutant: the filter on the content id is left out.
filter_test_left_out(d, labels, test) == labels

\* df_student[df_student["examContentId"] == test_id]
filter_test(d, labels, test) == SelectSeq(labels, LAMBDA l : d[l].examContentId = test)

get_student_test_history(d, test, student) ==
    LET df_student == filter_student(d, student)
        df_student_test == filter_test(d, df_student, test)
        df_student_test_sorted == sort_attempts(d, df_student_test)
        history_row == history_slice(df_student_test_sorted)
        history_test_result == serialize_record(frame_to_dict(d, history_row))
    IN IF df_student = << >>
       THEN [status |-> "no_tests_for_student",
             current_test_result |-> PyNone,
             history_test_result |-> PyNone,
             notes |-> <<"This student has not taken any tests.">>]
       ELSE IF df_student_test = << >>
       THEN [status |-> "no_current_test",
             current_test_result |-> PyNone,
             history_test_result |-> PyNone,
             notes |-> <<"Student has test history, but not for this test_id.">>]
       ELSE [status |-> "ok",
             current_test_result |->
                 serialize_record(series_to_dict(d, df_student_test_sorted[1])),
             history_test_result |-> history_test_result,
             notes |-> IF ~Truthy(history_test_result)
                       THEN <<"No previous attempts for this test_id (first time taking this test).">>
                       ELSE << >>]

\* The tables and outputs a specification does not use.
NoTables ==
    /\ df_tq = << >>
    /\ df_ta = << >>
    /\ df_q = << >>

NotRun ==
    /\ agent1_out = PyNone
    /\ agent2_out = PyNone
    /\ llm_reply = "none"
    /\ agent5_out = PyNone

SelIdle ==
    /\ sel_pc = "idle"
    /\ all_recommendations = << >>
    /\ perm_recommendations = << >>
    /\ max_total = 1
    /\ sel_out = << >>
    /\ perm_out = << >>

AttemptTables ==
    {[i \in 1..Len(t) |->
        AttemptRow(i, t[i].userId, t[i].examContentId, t[i].attemptNumber,
                   t[i].createdAt)] :
     t \in SeqsUpTo([userId : UserIds, examContentId : ContentIds,
                     attemptNumber : AttemptNumbers, createdAt : Timestamps],
                    MaxAttemptRows)}

A1Init ==
    /\ pc = "start"
    /\ df \in AttemptTables
    /\ NoTables
    /\ NotRun

\* get_student_test_history(test_id, student_id) on the exam-result table.
Agent1 ==
    /\ pc = "start"
    /\ agent1_out' = get_student_test_history(df, test_id, student_id)
    /\ pc' = "agent1"
    /\ UNCHANGED <<df, df_tq, df_ta, df_q, agent2_out, llm_reply, agent5_out>>
    /\ UNCHANGED selVars
    /\ UNCHANGED recVars
    /\ UNCHANGED <<domVars, guardVars, parseVars>>
    /\ UNCHANGED pipeVars

SpecA1Init == A1Init /\ SelIdle /\ PipeIdle /\ RecIdle /\ DomIdle /\ GuardIdle /\ ParseIdle
SpecA1Next == Agent1
SpecA1 == SpecA1Init /\ [][SpecA1Next]_vars

(***************************************************************************)
(* agent2: get_incorrect_question_cases and _build_domain_performance      *)
(***************************************************************************)
MaxExamAttempts == 2  \* attempts of the learner in SpecExam
MaxTQ == 2            \* rows of the question-result table
MaxTA == 2            \* rows of the answer-result table

QuestionIds == {"q1", "q2"}
\* groupby("domain") yields the groups in sorted key order.
DomainOrder == <<"Math", "Reading", "Unknown">>
\* Question banks: every question with a domain; a question with an empty
\* domain cell; a question missing from the bank.
QuestionBanks ==
    { <<[id |-> "q1", domain |-> "Math"], [id |-> "q2", domain |-> "Reading"]>>,
      <<[id |-> "q1", domain |-> "Math"], [id |-> "q2", domain |-> "NaN"]>>,
      <<[id |-> "q1", domain |-> "Math"]>> }

\* A number correct/total, kept exact.
Frac(n, d) == [tag |-> "number", num |-> n, den |-> d]

\* df_tq[df_tq["examResultId"] == result_id]
tq_of_result(tq, result_id) ==
    SelectSeq(tq, LAMBDA r : PyEq(Scalar(r.examResultId), result_id))

\* df_ta[df_ta["examResultQuestionId"].isin(df_tq_subset["id"])]
ta_of_questions(ta, tq_subset) ==
    SelectSeq(ta, LAMBDA a : a.examResultQuestionId \in {r.id : r \in Range(tq_subset)})

\* Mutant: a question is incorrect only when all of its answers are.
group_all_incorrect(answers) == \A i \in 1..Len(answers) : ~answers[i].isCorrect

\* lambda s: (~s.astype(bool)).any()
group_any_incorrect(answers) == \E i \in 1..Len(answers) : ~answers[i].isCorrect

\* The any_incorrect cell of a question-result row after the left merge with
\* the groupby aggregate: NaN when the row has no answer rows.
any_incorrect(ta_subset, tq_row) ==
    LET answers == SelectSeq(ta_subset, LAMBDA a : a.examResultQuestionId = tq_row.id)
    IN IF answers = << >> THEN "NaN"
       ELSE IF group_any_incorrect(answers) THEN "True" ELSE "False"

\* Left merge of one row with the question bank on questionId = id: one row
\* per matching bank entry, or one row with empty bank cells.
bank_matches(q, question_id) == SelectSeq(q, LAMBDA b : b.id = question_id)

RECURSIVE MergeBank(_, _)
MergeBank(rows, q) ==
    IF rows = << >> THEN << >>
    ELSE LET r == Head(rows)
             m == bank_matches(q, r.questionId)
         IN (IF m = << >>
             THEN <<[tq |-> r, domain |-> "NaN"]>>
             ELSE [i \in 1..Len(m) |-> [tq |-> r, domain |-> m[i].domain]])
            \o MergeBank(Tail(rows), q)

\* ~(any_incorrect.fillna(True)), with the boolean column that fillna gives.
is_correct(cell) == ~(IF cell = "NaN" THEN TRUE ELSE cell = "True")

\* df_join["domain"].fillna("Unknown")
domain_or_unknown(cell) == IF cell = "NaN" THEN "Unknown" ELSE cell

\* Mutant: the accuracy is taken over the incorrect answers.
domain_row_ratio(domain, grp) ==
    LET total == Len(grp)
        correct == Len(SelectSeq(grp, LAMBDA r : r.is_correct))
    IN [domain |-> domain, total |-> total, correct |-> correct,
        incorrect |-> total - correct,
        accuracy |-> Frac(correct, total - correct)]

\* One entry of domain_rows.
domain_row(domain, grp) ==
    LET total == Len(grp)
        correct == Len(SelectSeq(grp, LAMBDA r : r.is_correct))
    IN [domain |-> domain, total |-> total, correct |-> correct,
        incorrect |-> total - correct,
        accuracy |-> IF total # 0 THEN Frac(correct, total) ELSE PyNone]

RECURSIVE SumOf(_, _)
SumOf(rows, field) ==
    IF rows = << >> THEN 0 ELSE Head(rows)[field] + SumOf(Tail(rows), field)

\* Lines 232-250: the totals over the domain rows and the returned dict.
domain_performance_of(domain_rows) ==
    LET total_questions == SumOf(domain_rows, "total")
        total_correct == SumOf(domain_rows, "correct")
    IN Dict([domains |-> domain_rows,
             overall |-> [total |-> total_questions,
                          correct |-> total_correct,
                          incorrect |-> total_questions - total_correct,
                          accuracy |-> IF total_questions # 0
                                       THEN Frac(total_correct, total_questions)
                                       ELSE PyNone]])

build_domain_performance(df_tq_subset, ta, q) ==
    LET df_ta_subset == ta_of_questions(ta, df_tq_subset)
        merged == MergeBank(df_tq_subset, q)
        df_join == [i \in 1..Len(merged) |->
                      [is_correct |-> is_correct(any_incorrect(df_ta_subset, merged[i].tq)),
                       domain |-> domain_or_unknown(merged[i].domain)]]
        present == SelectSeq(DomainOrder,
                             LAMBDA d : \E i \in 1..Len(df_join) : df_join[i].domain = d)
        domain_rows == [k \in 1..Len(present) |->
                          domain_row(present[k],
                                     SelectSeq(df_join, LAMBDA r : r.domain = present[k]))]
    IN IF df_tq_subset = << >> THEN PyNone
       ELSE IF df_ta_subset = << >> THEN PyNone
       ELSE domain_performance_of(domain_rows)

\* Domain performance of the previous attempt, lines 94-104.
history_performance(a1, tq, ta, q) ==
    LET history == a1.history_test_result
    IN IF Truthy(history) /\ Truthy(history.val.id)
       THEN LET history_id == history.val.id
                df_tq_history == tq_of_result(tq, history_id)
            IN IF df_tq_history # << >>
               THEN build_domain_performance(df_tq_history, ta, q)
               ELSE PyNone
       ELSE PyNone

Agent2Result(status, result_id, cases, total, incorrect, current, history, notes) ==
    [status |-> status,
     current_test_result_id |-> result_id,
     incorrect_questions |-> cases,
     total_questions_in_test |-> total,
     total_incorrect_questions |-> incorrect,
     domain_performance |-> Dict([current |-> current, history |-> history]),
     notes |-> notes]

get_incorrect_question_cases(a1, tq, ta, q) ==
    IF a1.current_test_result.tag = "none"
    THEN Agent2Result("upstream_no_current_test", PyNone, << >>, 0, 0, PyNone, PyNone,
                      <<"Agent 1 did not return a current_test_result">>
                      \o [i \in 1..Len(a1.notes) |-> "[Agent1] note"])
    ELSE
    LET current_test_result_id == a1.current_test_result.val.id
        df_tq_current == tq_of_result(tq, current_test_result_id)
        df_ta_current == ta_of_questions(ta, df_tq_current)
        current == build_domain_performance(df_tq_current, ta, q)
        history == history_performance(a1, tq, ta, q)
        df_incorrect == SelectSeq(df_tq_current,
                                  LAMBDA r : any_incorrect(df_ta_current, r) = "True")
        merged == MergeBank(df_incorrect, q)
        incorrect_questions ==
            [i \in 1..Len(merged) |->
                [questionId |-> merged[i].tq.questionId,
                 testResultQuestionId |-> merged[i].tq.id]]
    IN IF df_tq_current = << >>
       THEN Agent2Result("no_question_results_for_test", current_test_result_id,
                         << >>, 0, 0, PyNone, PyNone,
                         <<"No test_question_result rows found">>)
       ELSE IF df_ta_current = << >>
       THEN Agent2Result("no_answers_for_test", current_test_result_id,
                         << >>, Len(df_tq_current), 0, PyNone, PyNone,
                         <<"No test_answer_result rows found">>)
       ELSE IF df_incorrect = << >>
       THEN Agent2Result("no_incorrect_answers", current_test_result_id,
                         << >>, Len(df_tq_current), 0, current, history,
                         <<"All questions in this test were answered correctly">>)
       ELSE IF incorrect_questions = << >>
       THEN Agent2Result("incorrect_questions_not_built", current_test_result_id,
                         incorrect_questions, Len(df_tq_current), Len(df_incorrect),
                         current, history,
                         <<"Unexpected: no incorrect_questions were built">>)
       ELSE Agent2Result("ok", current_test_result_id,
                         incorrect_questions, Len(df_tq_current), Len(df_incorrect),
                         current, history, << >>)

(***************************************************************************)
(* agent5: generate_user_facing_response                                   *)
(***************************************************************************)
SectionKeys == {"Test Title", "Current Performance", "Area to be Improved",
                "Recommended Course", "Progress Compared to Previous Test",
                "Domain Comparison"}

\* What client.models.generate_content can do: raise, or return a text.
LlmReplies == {"raises", "", "prose", "[list]", "{}", "{partial}", "{report}"}

\* json.loads of the texts of LlmReplies.
json_loads(text) ==
    IF text = "{report}" THEN Dict([k \in SectionKeys |-> "text written by the model"])
    ELSE IF text = "{partial}"
         THEN Dict([k \in {"Test Title", "Current Performance"} |->
                        "text written by the model"])
    ELSE IF text = "{}" THEN Dict(<< >>)
    ELSE IF text = "[list]" THEN [tag |-> "list"]
    ELSE [tag |-> "JSONDecodeError"]

\* Mutant: the parsed value is returned without the isinstance check.
parse_llm_json_unchecked(raw_text) ==
    LET data == json_loads(raw_text)
    IN IF data.tag = "JSONDecodeError" THEN Dict(<< >>) ELSE data

\* _parse_llm_json: the parsed object, or {} when the text is no JSON object.
parse_llm_json(raw_text) ==
    LET data == json_loads(raw_text)
    IN IF data.tag = "dict" THEN data ELSE Dict(<< >>)

\* d.get(key) of a dict, and of (d or {}).
Get(d, key) ==
    IF d.tag = "dict" /\ key \in DOMAIN d.val THEN d.val[key] ELSE PyNone

\* _to_int: int(value), None on TypeError (None, a dict) or ValueError.
to_int(value) == IF value.tag = "scalar" THEN value ELSE PyNone

\* _test_title
test_title(test_result, history_result) ==
    IF Truthy(Get(test_result, "testTitle")) THEN Get(test_result, "testTitle").val
    ELSE IF Truthy(Get(history_result, "testTitle"))
         THEN Get(history_result, "testTitle").val
         ELSE ""

\* _progress_heading
progress_heading(test_result, history_result) ==
    IF ~Truthy(history_result) THEN ""
    ELSE IF test_title(test_result, history_result) = ""
         THEN "Progress Compared to Previous Test (previous test):"
         ELSE "Progress Compared to Previous Test (title):"

\* _summarize_test_result: a sentence that always starts "In <title>".
summarize_test_result(test_result) == "In this test; scored."

\* _summarize_history
summarize_history(history_result) ==
    LET attempt == to_int(Get(history_result, "attemptNumber"))
        score == to_int(Get(history_result, "earnedScore"))
        total_score == to_int(Get(history_result, "totalScore"))
    IN IF score.tag = "none" \/ total_score.tag = "none"
       THEN IF Truthy(attempt) THEN "Previous attempt is on record." ELSE ""
       ELSE "Previous attempt scored."

\* _ranking_sentence
ranking_sentence(participant_ranking) ==
    IF participant_ranking.tag = "none" THEN ""
    ELSE "Ranked within the top of participants."

\* " ".join(part for part in parts if part), as the list of its sentences.
NonEmpty(parts) == SelectSeq(parts, LAMBDA part : part # "")

\* a >= b for two accuracies.
\* Mutant: equal accuracy does not count as improved.
frac_greater(a, b) == a.num * b.den > b.num * a.den

FracGeq(a, b) == a.num * b.den >= b.num * a.den

\* _domain_improvement_summaries
domain_improvement_summaries(domain_performance) ==
    IF ~Truthy(domain_performance) THEN << >>
    ELSE
    LET current == Get(domain_performance, "current")
        history == Get(domain_performance, "history")
        curr_domains == IF Truthy(current) THEN current.val.domains ELSE << >>
        hist_domains == IF Truthy(history) THEN history.val.domains ELSE << >>
        hist_of(domain) ==
            hist_domains[CHOOSE k \in 1..Len(hist_domains) :
                            /\ hist_domains[k].domain = domain
                            /\ \A m \in (k + 1)..Len(hist_domains) :
                                  hist_domains[m].domain # domain]
        compared == SelectSeq(curr_domains, LAMBDA curr :
                        /\ \E k \in 1..Len(hist_domains) : hist_domains[k].domain = curr.domain
                        /\ curr.accuracy.tag # "none"
                        /\ hist_of(curr.domain).accuracy.tag # "none")
    IN [i \in 1..Len(compared) |->
          [domain |-> compared[i].domain,
           direction |-> IF FracGeq(compared[i].accuracy, hist_of(compared[i].domain).accuracy)
                         THEN "Improved" ELSE "Declined",
           from |-> hist_of(compared[i].domain).accuracy,
           to |-> compared[i].accuracy]]

\* _congrats_summary
congrats_summary(test_result, history_result, ranking, heading) ==
    LET perf_sentence == IF Truthy(test_result) THEN summarize_test_result(test_result) ELSE ""
        history_sentence == IF Truthy(history_result)
                            THEN summarize_history(history_result) ELSE ""
    IN Dict([k \in SectionKeys |->
         CASE k = "Test Title" -> test_title(test_result, history_result)
           [] k = "Current Performance" ->
                NonEmpty(<<perf_sentence, history_sentence, ranking,
                           "Congratulations on answering every question correctly!">>)
           [] k = "Area to be Improved" -> "You achieved full accuracy on this attempt."
           [] k = "Recommended Course" -> << >>
           [] k = "Progress Compared to Previous Test" -> heading
           [] k = "Domain Comparison" -> << >>])

\* _fallback_summary
fallback_summary(weaknesses, recommendations, test_result, history_result, ranking, domain_performance, heading, title) ==
    LET history_sentence == IF Truthy(history_result)
                            THEN summarize_history(history_result) ELSE ""
        current_perf_parts ==
            NonEmpty(<<IF Truthy(test_result) THEN summarize_test_result(test_result) ELSE "",
                       history_sentence, ranking>>)
        rec_sentences == [i \in 1..Len(recommendations) |-> "Course targets weakness."]
        domain_comparison == domain_improvement_summaries(domain_performance)
    IN Dict([k \in SectionKeys |->
         CASE k = "Test Title" -> title
           [] k = "Current Performance" ->
                IF current_perf_parts # << >> THEN current_perf_parts
                ELSE <<"We reviewed your recent performance.">>
           [] k = "Area to be Improved" ->
                IF weaknesses # << >> THEN "Priority focus areas include the weaknesses."
                ELSE "Priority focus areas include the assessed skills."
           [] k = "Recommended Course" ->
                IF rec_sentences # << >> THEN rec_sentences
                ELSE <<"No course recommendations were generated.">>
           [] k = "Progress Compared to Previous Test" ->
                IF domain_comparison # << >> THEN heading ELSE ""
           [] k = "Domain Comparison" -> domain_comparison])

generate_user_facing_response(weaknesses, recommendations, test_result, history_result, all_correct, participant_ranking, domain_performance, reply) ==
    IF all_correct
    THEN [summary |-> congrats_summary(test_result, history_result,
                                       ranking_sentence(participant_ranking),
                                       progress_heading(test_result, history_result)),
          recommendations |-> << >>]
    ELSE LET summary_json == IF reply = "raises" \/ reply = "" THEN Dict(<< >>)
                             ELSE parse_llm_json(reply)
             rec_list == [i \in 1..Len(recommendations) |->
                            [course_id |-> recommendations[i].course,
                             target_weakness_id |-> recommendations[i].weakness_id]]
         IN [summary |-> IF Truthy(summary_json) THEN summary_json
                         ELSE fallback_summary(weaknesses, recommendations, test_result,
                                               history_result,
                                               ranking_sentence(participant_ranking),
                                               domain_performance,
                                               progress_heading(test_result, history_result),
                                               test_title(test_result, history_result)),
             recommendations |-> rec_list]

\* The weaknesses and the selected courses handed to the report when the
\* attempt has incorrect answers.
report_weaknesses == <<[id |-> 1, text |-> "weakness"]>>
report_recommendations == <<[course |-> 1, weakness_id |-> 1, score |-> 2]>>

\* run_full_pipeline lines 94-165: the report is built when the aggregation
\* status is "ok" or "no_incorrect_answers"; an attempt without incorrect
\* cases takes the all-correct path and makes no generation call.
Agent5 ==
    /\ pc = "agent2"
    /\ agent2_out.status \in {"ok", "no_incorrect_answers"}
    /\ LET all_correct == agent2_out.incorrect_questions = << >>
       IN \E reply \in IF all_correct THEN {"none"} ELSE LlmReplies :
            /\ llm_reply' = reply
            /\ agent5_out' = generate_user_facing_response(
                    IF all_correct THEN << >> ELSE report_weaknesses,
                    IF all_correct THEN << >> ELSE report_recommendations,
                    agent1_out.current_test_result,
                    agent1_out.history_test_result,
                    all_correct, PyNone, agent2_out.domain_performance, reply)
    /\ pc' = "done"
    /\ UNCHANGED <<df, df_tq, df_ta, df_q, agent1_out, agent2_out>>
    /\ UNCHANGED selVars
    /\ UNCHANGED recVars
    /\ UNCHANGED <<domVars, guardVars, parseVars>>
    /\ UNCHANGED pipeVars

\* The learner's attempts on the target content, numbered and dated in the
\* order of the file.
ExamAttemptTables ==
    {[i \in 1..n |-> AttemptRow(i, student_id, test_id, i, IF i = 1 THEN 1 ELSE 2)] :
        n \in 0..MaxExamAttempts}

QuestionResultTables ==
    {[i \in 1..Len(t) |->
        [id |-> i, examResultId |-> t[i].examResultId, questionId |-> t[i].questionId]] :
     t \in SeqsUpTo([examResultId : 1..MaxExamAttempts, questionId : QuestionIds], MaxTQ)}

AnswerResultTables ==
    SeqsUpTo([examResultQuestionId : 1..MaxTQ, isCorrect : BOOLEAN], MaxTA)

ExamInit ==
    /\ pc = "start"
    /\ df \in ExamAttemptTables
    /\ df_tq \in QuestionResultTables
    /\ df_ta \in AnswerResultTables
    /\ df_q \in QuestionBanks
    /\ NotRun

\* get_incorrect_question_cases(agent1_out) on the four tables.
Agent2 ==
    /\ pc = "agent1"
    /\ agent2_out' = get_incorrect_question_cases(agent1_out, df_tq, df_ta, df_q)
    /\ pc' = "agent2"
    /\ UNCHANGED <<df, df_tq, df_ta, df_q, agent1_out, llm_reply, agent5_out>>
    /\ UNCHANGED selVars
    /\ UNCHANGED recVars
    /\ UNCHANGED <<domVars, guardVars, parseVars>>
    /\ UNCHANGED pipeVars

SpecExamInit == ExamInit /\ SelIdle /\ PipeIdle /\ RecIdle /\ DomIdle /\ GuardIdle /\ ParseIdle
SpecExamNext == Agent1 \/ Agent2 \/ Agent5
SpecExam == SpecExamInit /\ [][SpecExamNext]_vars

(***************************************************************************)
(* _domain_improvement_summaries as one call                               *)
(***************************************************************************)
MaxDomQuestions == 2  \* question results of one domain in one attempt

\* The rows the loop of _build_domain_performance makes for a domain, from
\* its questions answered correctly or not; a row without questions has no
\* accuracy.
DomainRowsOf(domain) ==
    {domain_row(domain, grp) : grp \in SeqsUpTo([is_correct : BOOLEAN], MaxDomQuestions)}

\* The DomainPerformance of one attempt: absent, or rows for some of the
\* domains, in the order of groupby.
DomainPerformances ==
    {PyNone}
      \cup {domain_performance_of(<<m>>) : m \in DomainRowsOf("Math")}
      \cup {domain_performance_of(<<r>>) : r \in DomainRowsOf("Reading")}
      \cup {domain_performance_of(<<m, r>>) :
                m \in DomainRowsOf("Math"), r \in DomainRowsOf("Reading")}

DomInit ==
    /\ dom_pc = "start"
    /\ dom_performance \in
          {PyNone} \cup {Dict([current |-> c, history |-> h]) :
                            c \in DomainPerformances, h \in DomainPerformances}
    /\ dom_summaries = << >>

\* One call of _domain_improvement_summaries(domain_performance).
DomainImprovementSummaries ==
    /\ dom_pc = "start"
    /\ dom_summaries' = domain_improvement_summaries(dom_performance)
    /\ dom_pc' = "done"
    /\ UNCHANGED dom_performance
    /\ UNCHANGED <<selVars, examVars, pipeVars, recVars, guardVars, parseVars>>

SpecDomInit == DomInit /\ SelIdle /\ ExamIdle /\ PipeIdle /\ RecIdle /\ GuardIdle /\ ParseIdle
SpecDomNext == DomainImprovementSummaries
SpecDom == SpecDomInit /\ [][SpecDomNext]_vars

(***************************************************************************)
(* agent3: extract_weaknesses_and_patterns                                 *)
(***************************************************************************)
MaxWeaknesses == 2    \* objects in the list the model's text holds

List(s) == [tag |-> "list", val |-> s]

\* An id the model wrote into its text, and the n-th id of ulid.new().
LlmId == [src |-> "llm", n |-> 1]
Ulid(n) == [src |-> "ulid", n |-> n]

\* The objects the model's text can hold: a weakness with or without an id
\* of the model's own, and an object without the "weakness" key.
WeaknessObjects ==
    {Dict([k \in {"weakness"} |-> "weak area"]),
     Dict([k \in {"weakness", "id"} |-> IF k = "id" THEN LlmId ELSE "weak area"]),
     Dict([k \in {"description"} |-> "a description"])}

\* The values a text can denote as JSON or as a Python literal.
ParsedValues ==
    {PyNone, Scalar(5), List(<<Scalar(1), Scalar(2)>>)}
        \cup WeaknessObjects
        \cup {List(l) : l \in SeqsUpTo(WeaknessObjects, MaxWeaknesses)}

\* The fields _extract_weakness_by_regex looks for.
FieldNames ==
    {"weakness", "pattern_type", "description", "evidence_question_ids", "frequency"}

\* What client.models.generate_content can do: raise, or return a response
\* whose text is None, empty, prose, prose that labels fields, JSON, or a
\* Python literal that is not JSON.  Three texts are readable by more than
\* one tier: JSON that is also a Python literal of another value (the
\* escape \/ in a string), JSON whose string labels a field, and a Python
\* literal whose string labels a field.
WeaknessReplies ==
    {[tag |-> "raises"], [tag |-> "text", form |-> "None"],
     [tag |-> "text", form |-> "empty"], [tag |-> "text", form |-> "prose"],
     [tag |-> "text", form |-> "fields", fields |-> {"weakness"}],
     [tag |-> "text", form |-> "json|literal",
      value |-> Dict([k \in {"weakness"} |-> "a/b"]),
      literal_value |-> Dict([k \in {"weakness"} |-> "a\\/b"])],
     [tag |-> "text", form |-> "json|fields", fields |-> {"weakness"},
      value |-> Dict([k \in {"description"} |-> "weakness: a"])],
     [tag |-> "text", form |-> "literal|fields", fields |-> {"weakness"},
      value |-> Dict([k \in {"description"} |-> "weakness: a"])]}
        \cup {[tag |-> "text", form |-> "json", value |-> v] : v \in ParsedValues}
        \cup {[tag |-> "text", form |-> "literal", value |-> v] :
                v \in {Scalar(5)} \cup WeaknessObjects}

Raised(exc) == [tag |-> "raised", exc |-> exc]
Returned(v) == [tag |-> "returned", val |-> v]

\* remove_code_fences: text.replace on None raises AttributeError; a string
\* keeps its form.
remove_code_fences(text) ==
    IF text.form = "None" THEN Raised("AttributeError") ELSE Returned(text)

\* json.loads(text)
weakness_json_loads(text) ==
    IF text.form \in {"json", "json|literal", "json|fields"}
    THEN Returned(text.value) ELSE Raised("JSONDecodeError")

\* ast.literal_eval(text)
literal_eval(text) ==
    IF text.form \in {"literal", "literal|fields", "json|fields"} THEN Returned(text.value)
    ELSE IF text.form = "json|literal" THEN Returned(text.literal_value)
    ELSE Raised("SyntaxError")

\* _extract_weakness_by_regex: one record of the fields found, [] when none.
extract_weakness_by_regex(text) ==
    IF text.form \in {"fields", "json|fields", "literal|fields"}
    THEN <<Dict([k \in text.fields |-> "weak area"])>>
    ELSE << >>

\* `return data if isinstance(data, list) else [data]`
as_list(data) == IF data.tag = "list" THEN data.val ELSE <<data>>

\* convert_llm_weaknesses_for_agent3: strict JSON, then Python literal, then
\* the regex extraction.
convert_llm_weaknesses_for_agent3(raw_text) ==
    IF weakness_json_loads(raw_text).tag = "returned"
    THEN as_list(weakness_json_loads(raw_text).val)
    ELSE IF literal_eval(raw_text).tag = "returned"
         THEN as_list(literal_eval(raw_text).val)
         ELSE extract_weakness_by_regex(raw_text)

\* Mutant: an id the model wrote is kept.
set_id_if_absent(d, new_id) ==
    IF "id" \in DOMAIN d.val THEN d
    ELSE Dict([k \in DOMAIN d.val \cup {"id"} |-> IF k = "id" THEN new_id ELSE d.val[k]])

\* d["id"] = new_id on a dict.
set_id(d, new_id) ==
    Dict([k \in DOMAIN d.val \cup {"id"} |-> IF k = "id" THEN new_id ELSE d.val[k]])

\* extract_weaknesses_and_patterns after the generation call returned
\* `reply`: the k-th record gets the id first_ulid + k; an item that is not
\* a dict makes `d["id"] = ...` raise TypeError.
extract_weaknesses_and_patterns(reply, first_ulid) ==
    IF reply.tag = "raises" THEN Raised("APIError")
    ELSE IF remove_code_fences(reply).tag = "raised" THEN remove_code_fences(reply)
    ELSE LET weaknesses == convert_llm_weaknesses_for_agent3(remove_code_fences(reply).val)
         IN IF \E k \in 1..Len(weaknesses) : weaknesses[k].tag # "dict"
            THEN Raised("TypeError")
            ELSE Returned([k \in 1..Len(weaknesses) |->
                              set_id(weaknesses[k], Ulid(first_ulid + k))])

(***************************************************************************)
(* convert_llm_weaknesses_for_agent3, tier by tier                         *)
(***************************************************************************)
\* The texts handed to convert_llm_weaknesses_for_agent3: every text of a
\* generation reply, and prose labelling any of the five fields.
ParseTexts ==
    {reply \in WeaknessReplies : reply.tag = "text" /\ reply.form # "None"}
      \cup {[tag |-> "text", form |-> "fields", fields |-> f] :
                f \in (SUBSET FieldNames) \ {{}}}

ParseInit ==
    /\ parse_pc = "json"
    /\ parse_text \in ParseTexts
    /\ parse_tried = << >>
    /\ parse_out = << >>

\* Mutant: the value json.loads returned is not returned to the caller.
json_tier_falls_through(text) == FALSE

\* Lines 97-102: json.loads succeeded, so the function returns from the try.
json_tier_returns(text) == weakness_json_loads(text).tag = "returned"

\* Lines 96-105: the strict JSON tier.
JsonTier ==
    /\ parse_pc = "json"
    /\ parse_tried' = Append(parse_tried, "json")
    /\ IF json_tier_returns(parse_text)
       THEN /\ parse_out' = as_list(weakness_json_loads(parse_text).val)
            /\ parse_pc' = "returned"
       ELSE /\ parse_pc' = "literal"
            /\ UNCHANGED parse_out
    /\ UNCHANGED parse_text
    /\ UNCHANGED <<selVars, examVars, pipeVars, recVars, domVars, guardVars>>

\* Lines 107-115: the Python literal tier.
LiteralTier ==
    /\ parse_pc = "literal"
    /\ parse_tried' = Append(parse_tried, "literal")
    /\ IF literal_eval(parse_text).tag = "returned"
       THEN /\ parse_out' = as_list(literal_eval(parse_text).val)
            /\ parse_pc' = "returned"
       ELSE /\ parse_pc' = "regex"
            /\ UNCHANGED parse_out
    /\ UNCHANGED parse_text
    /\ UNCHANGED <<selVars, examVars, pipeVars, recVars, domVars, guardVars>>

\* Lines 117-118: the regex extraction.
RegexTier ==
    /\ parse_pc = "regex"
    /\ parse_tried' = Append(parse_tried, "regex")
    /\ parse_out' = extract_weakness_by_regex(parse_text)
    /\ parse_pc' = "returned"
    /\ UNCHANGED parse_text
    /\ UNCHANGED <<selVars, examVars, pipeVars, recVars, domVars, guardVars>>

SpecParseInit ==
    ParseInit /\ SelIdle /\ ExamIdle /\ PipeIdle /\ RecIdle /\ DomIdle /\ GuardIdle
SpecParseNext == JsonTier \/ LiteralTier \/ RegexTier
SpecParse == SpecParseInit /\ [][SpecParseNext]_vars

(***************************************************************************)
(* agent4: recommend_courses_for_student                                   *)
(***************************************************************************)
MAX_TOTAL == 5                     \* _select_final_courses(..., max_total=5)
max_candidates_per_weakness == 4   \* _llm_rerank_courses default

\* One external request: its kind and the weakness it is issued for.
NoKey == [src |-> "none", n |-> 0]
Call(kind, key) == [kind |-> kind, key |-> key]

\* _parse_weaknesses: w["weakness"] raises KeyError when the key is missing;
\* the id is kept when present and truthy, else a uuid4 is generated.
parse_weaknesses(weaknesses_raw) ==
    IF \E k \in 1..Len(weaknesses_raw) : "weakness" \notin DOMAIN weaknesses_raw[k].val
    THEN Raised("KeyError")
    ELSE Returned([k \in 1..Len(weaknesses_raw) |->
            [id |-> IF "id" \in DOMAIN weaknesses_raw[k].val
                    THEN weaknesses_raw[k].val["id"]
                    ELSE [src |-> "uuid", n |-> k],
             text |-> weaknesses_raw[k].val["weakness"]]])

\* What _query_vertex_index can do for one weakness: raise (endpoint not
\* found, embedding or find_neighbors failure), or return neighbours, each
\* a course id with the score 1 / (1 + distance).
SearchReplies ==
    {[tag |-> "raises"],
     [tag |-> "neighbors", val |-> << >>],
     [tag |-> "neighbors", val |-> <<[id |-> 1, score |-> 3], [id |-> 2, score |-> 2]>>]}

\* Mutant: a query that raised is issued again.
RECURSIVE search_calls_retried(_, _)
search_calls_retried(weaknesses, search) ==
    IF weaknesses = << >> THEN << >>
    ELSE IF Head(search).tag = "raises"
         THEN <<Call("similarity_search", Head(weaknesses).id),
                Call("similarity_search", Head(weaknesses).id)>>
         ELSE <<Call("similarity_search", Head(weaknesses).id)>>
                \o search_calls_retried(Tail(weaknesses), Tail(search))

\* The queries the loop over the weaknesses issues, one _query_vertex_index
\* call (its embedding request and its find_neighbors request) per weakness:
\* the loop ends at the first query that raises.
RECURSIVE search_calls(_, _)
search_calls(weaknesses, search) ==
    IF weaknesses = << >> THEN << >>
    ELSE IF Head(search).tag = "raises"
         THEN <<Call("similarity_search", Head(weaknesses).id)>>
         ELSE <<Call("similarity_search", Head(weaknesses).id)>>
                \o search_calls(Tail(weaknesses), Tail(search))

\* Mutant: the entries carry a newly generated id instead of the weakness's.
scores_of_new_id(w, neighbors) ==
    [i \in 1..Len(neighbors) |->
        [course |-> neighbors[i].id, weakness_id |-> [src |-> "uuid", n |-> 0],
         score |-> neighbors[i].score,
         reason |-> "Retrieved by semantic match to weakness"]]

\* The CourseScore entries appended for one weakness.
scores_of(w, neighbors) ==
    [i \in 1..Len(neighbors) |->
        [course |-> neighbors[i].id, weakness_id |-> w.id, score |-> neighbors[i].score,
         reason |-> "Retrieved by semantic match to weakness"]]

RECURSIVE collect_recommendations(_, _)
collect_recommendations(weaknesses, search) ==
    IF weaknesses = << >> THEN << >>
    ELSE scores_of(Head(weaknesses), Head(search).val)
            \o collect_recommendations(Tail(weaknesses), Tail(search))

\* recs_by_weakness: the weakness ids of the selection in first-seen order,
\* each bucket sorted by score and capped.
RECURSIVE bucket_keys(_, _)
bucket_keys(recs, keys) ==
    IF recs = << >> THEN keys
    ELSE IF Head(recs).weakness_id \in Range(keys)
         THEN bucket_keys(Tail(recs), keys)
         ELSE bucket_keys(Tail(recs), Append(keys, Head(recs).weakness_id))

bucket(recs, wid) ==
    Prefix(sort_by_score_desc(SelectSeq(recs, LAMBDA r : r.weakness_id = wid)),
           max_candidates_per_weakness)

\* A string of the model's answer (a number is a Scalar).
Str(s) == [tag |-> "str", val |-> s]

\* One object of the list the re-ranking prompt asks for.
RerankItem(cid, score) ==
    Dict([k \in {"course_id", "relevance_score", "justification"} |->
            CASE k = "course_id" -> Scalar(cid)
              [] k = "relevance_score" -> score
              [] OTHER -> Str("fits the weakness")])

\* What the re-ranking call can do for one weakness: raise, return text that
\* is not JSON, return JSON that is not a list, or return a list scoring
\* every candidate.
RerankReplies ==
    {[tag |-> "raises"], [tag |-> "text", form |-> "{object}"],
     [tag |-> "text", form |-> "[scores]"]}

\* The relevance score the model gives a candidate.
relevance_score(rec) == 4 - rec.score

\* json.loads(raw) when the text is a JSON list.
rerank_items(recs, reply) ==
    IF reply.form = "[scores]"
    THEN [i \in 1..Len(recs) |->
            RerankItem(recs[i].course, Scalar(relevance_score(recs[i])))]
    ELSE reply.items

\* float(value): a number converts, a word raises ValueError.
to_float(value) ==
    IF value.tag = "scalar" THEN Returned(value.val) ELSE Raised("ValueError")

\* rec_lookup = {r.course.id: r for r in recs}: the positions of a course id
\* in the bucket; the dict keeps the last one.
rec_lookup(recs, cid) ==
    {i \in 1..Len(recs) : cid.tag = "scalar" /\ recs[i].course = cid.val}

\* Mutant: a course id the bucket does not hold is scored as well.
rescore_item_any_course(recs, item) ==
    IF item.tag # "dict" THEN Raised("AttributeError")
    ELSE LET cid == IF "course_id" \in DOMAIN item.val
                    THEN item.val["course_id"] ELSE PyNone
         IN IF cid.tag # "scalar" THEN Returned(<< >>)
            ELSE Returned(<<[recs[1] EXCEPT !.course = cid.val]>>)

\* Lines 268-281, one item of the list: item.get on a non-dict raises
\* AttributeError; an id outside rec_lookup is skipped; otherwise one
\* CourseScore is appended with the base's course and weakness.
rescore_item(recs, item) ==
    IF item.tag # "dict" THEN Raised("AttributeError")
    ELSE LET cid == IF "course_id" \in DOMAIN item.val
                    THEN item.val["course_id"] ELSE PyNone
             pos == rec_lookup(recs, cid)
         IN IF pos = {} THEN Returned(<< >>)
            ELSE LET base == recs[CHOOSE i \in pos : \A j \in pos : j <= i]
                     score == IF "relevance_score" \in DOMAIN item.val
                              THEN to_float(item.val["relevance_score"])
                              ELSE Returned(base.score)
                     justification ==
                        IF "justification" \in DOMAIN item.val
                        THEN item.val["justification"].val ELSE base.reason
                 IN IF score.tag = "raised" THEN score
                    ELSE Returned(<<[base EXCEPT !.score = score.val,
                                                 !.reason = justification]>>)

\* The loop over the items.  What earlier items appended stays in `rescored`
\* when a later item raises, and the except clause then appends the bucket.
RECURSIVE rescore_items(_, _, _)
rescore_items(recs, items, appended) ==
    IF items = << >> THEN appended
    ELSE LET r == rescore_item(recs, Head(items))
         IN IF r.tag = "raised" THEN appended \o recs
            ELSE rescore_items(recs, Tail(items), appended \o r.val)

\* The entries one bucket adds to `rescored` (lines 256-285).
rescored_of(recs, reply) ==
    IF reply.tag = "raises" THEN recs
    ELSE IF reply.form = "prose" THEN recs
    ELSE IF reply.form = "{object}" THEN << >>
    ELSE rescore_items(recs, rerank_items(recs, reply), << >>)

RECURSIVE rescore_buckets(_, _, _)
rescore_buckets(recommendations, keys, replies) ==
    IF keys = << >> THEN << >>
    ELSE rescored_of(bucket(recommendations, Head(keys)), Head(replies))
            \o rescore_buckets(recommendations, Tail(keys), Tail(replies))

\* _llm_rerank_courses
llm_rerank_courses(recommendations, replies) ==
    IF recommendations = << >> THEN << >>
    ELSE sort_by_score_desc(
            rescore_buckets(recommendations, bucket_keys(recommendations, << >>), replies))

\* The selection before re-ranking, given that every query returned.
selected_recommendations(weaknesses, search) ==
    select_final_courses(collect_recommendations(weaknesses, search), MAX_TOTAL)

\* Lines 150-153: `if rerank_enabled: ... if reranked: selected = reranked`.
rerank_or_keep(rerank_enabled, selected, rerank) ==
    IF rerank_enabled /\ llm_rerank_courses(selected, rerank) # << >>
    THEN llm_rerank_courses(selected, rerank)
    ELSE selected

\* recommend_courses_for_student
recommend_courses_for_student(weaknesses_raw, search, rerank_enabled, rerank) ==
    IF parse_weaknesses(weaknesses_raw).tag = "raised" THEN parse_weaknesses(weaknesses_raw)
    ELSE IF \E k \in 1..Len(search) : search[k].tag = "raises" THEN Raised("SearchError")
    ELSE LET weaknesses == parse_weaknesses(weaknesses_raw).val
         IN Returned([weaknesses |-> weaknesses,
                      recommendations |->
                          rerank_or_keep(rerank_enabled,
                                         selected_recommendations(weaknesses, search),
                                         rerank)])

\* The external requests of one recommend_courses_for_student call.
recommend_calls(weaknesses_raw, search, rerank_enabled) ==
    IF parse_weaknesses(weaknesses_raw).tag = "raised" THEN << >>
    ELSE LET weaknesses == parse_weaknesses(weaknesses_raw).val
             searches == search_calls(weaknesses, search)
         IN IF \E k \in 1..Len(search) : search[k].tag = "raises" THEN searches
            ELSE IF ~rerank_enabled THEN searches
            ELSE LET keys == bucket_keys(selected_recommendations(weaknesses, search), << >>)
                 IN searches \o [k \in 1..Len(keys) |-> Call("rerank", keys[k])]

(***************************************************************************)
(* recommend_courses_for_student as one call, with the answers of the      *)
(* re-ranking call spelled out item by item                                *)
(***************************************************************************)
MaxRerankItems == 2   \* items in the list one re-ranking answer holds

\* The weakness lists handed to recommend_courses_for_student: one or two
\* records with the ids of agent 3, a record without an id, and a record
\* without the "weakness" key.
RecWeaknessLists ==
    {[k \in 1..n |-> set_id(Dict([key \in {"weakness"} |-> "weak area"]), Ulid(k))] :
        n \in {1, 2}}
      \cup {<<Dict([key \in {"weakness"} |-> "weak area"])>>,
            <<Dict([key \in {"description"} |-> "a description"])>>}

\* The items a re-ranking answer can hold: a candidate scored low, a
\* candidate scored high, a candidate named without score or justification,
\* a course that was never a candidate, a score that is not a number, and an
\* item that is not an object.
RerankItems ==
    {RerankItem(1, Scalar(1)), RerankItem(2, Scalar(3)),
     Dict([k \in {"course_id"} |-> Scalar(1)]),
     RerankItem(9, Scalar(3)), RerankItem(2, Str("high")), Scalar(7)}

\* What the re-ranking call can do for one weakness, item by item.
RerankAnswers ==
    {[tag |-> "raises"], [tag |-> "text", form |-> "prose"],
     [tag |-> "text", form |-> "{object}"]}
      \cup {[tag |-> "text", form |-> "[items]", items |-> l] :
                l \in SeqsUpTo(RerankItems, MaxRerankItems)}

RecInit ==
    /\ rec_pc = "start"
    /\ rec_weaknesses_raw = << >>
    /\ rec_search = << >>
    /\ rec_rerank_enabled = FALSE
    /\ rec_rerank = << >>
    /\ rec_selected = << >>
    /\ rec_reranked = << >>
    /\ rec_response = [tag |-> "none"]

\* One call of recommend_courses_for_student.  rec_selected is the selection
\* of line 145, which is the list passed to _llm_rerank_courses, and
\* rec_reranked the list it returned (empty when it was not called).
Recommend ==
    /\ rec_pc = "start"
    /\ \E raw \in RecWeaknessLists :
       \E search \in [1..Len(raw) -> SearchReplies] :
       \E enabled \in BOOLEAN :
          LET parsed == parse_weaknesses(raw)
              reached == /\ parsed.tag = "returned"
                         /\ \A k \in 1..Len(search) : search[k].tag # "raises"
              selected == IF reached THEN selected_recommendations(parsed.val, search)
                          ELSE << >>
              keys == IF enabled THEN bucket_keys(selected, << >>) ELSE << >>
          IN \E rerank \in [1..Len(keys) -> RerankAnswers] :
                /\ rec_weaknesses_raw' = raw
                /\ rec_search' = search
                /\ rec_rerank_enabled' = enabled
                /\ rec_rerank' = rerank
                /\ rec_selected' = selected
                /\ rec_reranked' = IF enabled THEN llm_rerank_courses(selected, rerank)
                                   ELSE << >>
                /\ rec_response' = recommend_courses_for_student(raw, search, enabled, rerank)
    /\ rec_pc' = "done"
    /\ UNCHANGED <<selVars, examVars, pipeVars, domVars, guardVars, parseVars>>

SpecRecInit == RecInit /\ SelIdle /\ ExamIdle /\ PipeIdle /\ DomIdle /\ GuardIdle /\ ParseIdle
SpecRecNext == Recommend
SpecRec == SpecRecInit /\ [][SpecRecNext]_vars

(***************************************************************************)
(* pipeline: run_full_pipeline                                             *)
(***************************************************************************)
MaxPipeAttempts == 1  \* rows of the exam-result table in SpecPipe

PipeAttemptTables ==
    {[i \in 1..Len(t) |-> AttemptRow(i, t[i].userId, t[i].examContentId, i, 1)] :
     t \in SeqsUpTo([userId : UserIds, examContentId : ContentIds], MaxPipeAttempts)}

\* No question result, or one question result of one of the attempts.
PipeQuestionResults ==
    {<< >>} \cup {<<[id |-> 1, examResultId |-> r, questionId |-> "q1"]>> :
                    r \in 1..MaxPipeAttempts}

\* No answer, or one answer (correct or not) to question result 1.
PipeAnswerResults ==
    {<< >>} \cup {<<[examResultQuestionId |-> 1, isCorrect |-> b]>> : b \in BOOLEAN}

PipeInit ==
    /\ pc = "start"
    /\ df \in PipeAttemptTables
    /\ df_tq \in PipeQuestionResults
    /\ df_ta \in PipeAnswerResults
    /\ df_q \in QuestionBanks
    /\ NotRun
    /\ PipeIdle

\* dict.get(key, default) of a record.
result_get(result, key, default) ==
    IF key \in DOMAIN result THEN result[key] ELSE default

\* Lines 68-82: agent 1, and the early return when there is no current test.
PipeAgent1 ==
    /\ pc = "start"
    /\ LET out == get_student_test_history(df, test_id, student_id)
       IN /\ agent1_out' = out
          /\ IF out.current_test_result = PyNone
             THEN /\ pipeline_result' = Returned(Dict([status |-> "agent1_error",
                                                       agent1_output |-> out]))
                  /\ pc' = "returned"
             ELSE /\ pc' = "agent1"
                  /\ UNCHANGED pipeline_result
    /\ stages' = Append(stages, "agent1")
    /\ UNCHANGED <<df, df_tq, df_ta, df_q, agent2_out, llm_reply, agent5_out>>
    /\ UNCHANGED <<weakness_reply, weaknesses_llm, course_rec_output, calls, ulids, run_log>>
    /\ UNCHANGED selVars
    /\ UNCHANGED recVars
    /\ UNCHANGED <<domVars, guardVars, parseVars>>

\* Mutant: every aggregation status lets the pipeline continue.
continues_always(status) == TRUE

\* Line 94: the statuses that let the pipeline continue.
continues(status) == status = "ok" \/ status = "no_incorrect_answers"

\* Lines 84-103: agent 2, and the early return on any other status.
PipeAgent2 ==
    /\ pc = "agent1"
    /\ LET out == get_incorrect_question_cases(agent1_out, df_tq, df_ta, df_q)
       IN /\ agent2_out' = out
          /\ IF ~continues(out.status)
             THEN /\ pipeline_result' = Returned(Dict([status |-> "agent2_error",
                                                       agent1_output |-> agent1_out,
                                                       agent2_output |-> out]))
                  /\ pc' = "returned"
             ELSE /\ pc' = "agent2"
                  /\ UNCHANGED pipeline_result
    /\ stages' = Append(stages, "agent2")
    /\ UNCHANGED <<df, df_tq, df_ta, df_q, agent1_out, llm_reply, agent5_out>>
    /\ UNCHANGED <<weakness_reply, weaknesses_llm, course_rec_output, calls, ulids, run_log>>
    /\ UNCHANGED selVars
    /\ UNCHANGED recVars
    /\ UNCHANGED <<domVars, guardVars, parseVars>>

\* Mutant: the all-correct branch is never taken.
all_correct_never == FALSE

\* all_correct = not incorrect_cases
all_correct == agent2_out.incorrect_questions = << >>

\* The ids ulid.new() produced: one per record, up to and including the
\* item whose assignment raised.
RECURSIVE ids_generated(_)
ids_generated(items) ==
    IF items = << >> THEN 0
    ELSE IF Head(items).tag # "dict" THEN 1
         ELSE 1 + ids_generated(Tail(items))

\* Lines 108-119: agent 3 (one generation call), and the early return when
\* no weakness was extracted.  An exception of agent 3 leaves the pipeline.
PipeAgent3 ==
    /\ pc = "agent2"
    /\ ~all_correct
    /\ \E reply \in WeaknessReplies :
          LET out == extract_weaknesses_and_patterns(reply, Len(ulids))
              generated ==
                  IF reply.tag = "raises" \/ remove_code_fences(reply).tag = "raised" THEN 0
                  ELSE ids_generated(
                          convert_llm_weaknesses_for_agent3(remove_code_fences(reply).val))
          IN /\ weakness_reply' = reply
             /\ ulids' = ulids \o [k \in 1..generated |-> Ulid(Len(ulids) + k)]
             /\ IF out.tag = "raised"
                THEN /\ pipeline_result' = out
                     /\ pc' = "raised"
                     /\ UNCHANGED weaknesses_llm
                ELSE IF out.val = << >>
                THEN /\ pipeline_result' = Returned(Dict([status |-> "no_weaknesses",
                                                          agent1_output |-> agent1_out,
                                                          agent2_output |-> agent2_out,
                                                          weaknesses_raw |-> << >>]))
                     /\ pc' = "returned"
                     /\ UNCHANGED weaknesses_llm
                ELSE /\ weaknesses_llm' = out.val
                     /\ pc' = "agent3"
                     /\ UNCHANGED pipeline_result
    /\ calls' = Append(calls, Call("weakness_generation", NoKey))
    /\ stages' = Append(stages, "agent3")
    /\ UNCHANGED <<df, df_tq, df_ta, df_q, agent1_out, agent2_out, llm_reply, agent5_out>>
    /\ UNCHANGED <<course_rec_output, run_log>>
    /\ UNCHANGED selVars
    /\ UNCHANGED recVars
    /\ UNCHANGED <<domVars, guardVars, parseVars>>

\* Mutant: only a failed search ends the run.
no_recommendations_on_failure(output) == ~Truthy(output)

\* Line 138: `not course_rec_output or not course_rec_output.get("recommendations")`
no_recommendations(output) == ~Truthy(output) \/ output.val.recommendations = << >>

\* Lines 121-146: agent 4 inside try/except, and the early return when it
\* raised or selected nothing.
PipeAgent4 ==
    /\ pc = "agent3"
    /\ \E search \in [1..Len(weaknesses_llm) -> SearchReplies] :
       \E rerank \in [1..Len(weaknesses_llm) -> RerankReplies] :
          LET out == recommend_courses_for_student(weaknesses_llm, search, TRUE, rerank)
              output == IF out.tag = "raised" THEN PyNone ELSE Dict(out.val)
          IN /\ course_rec_output' = output
             /\ calls' = calls \o recommend_calls(weaknesses_llm, search, TRUE)
             /\ IF no_recommendations(output)
                THEN /\ pipeline_result' =
                            Returned(Dict([status |-> "no_course_recommendations",
                                           agent1_output |-> agent1_out,
                                           agent2_output |-> agent2_out,
                                           weaknesses_llm |-> weaknesses_llm,
                                           course_recommendation |-> output]))
                     /\ pc' = "returned"
                ELSE /\ pc' = "agent4"
                     /\ UNCHANGED pipeline_result
    /\ stages' = Append(stages, "agent4")
    /\ UNCHANGED <<df, df_tq, df_ta, df_q, agent1_out, agent2_out, llm_reply, agent5_out>>
    /\ UNCHANGED <<weakness_reply, weaknesses_llm, ulids, run_log>>
    /\ UNCHANGED selVars
    /\ UNCHANGED recVars
    /\ UNCHANGED <<domVars, guardVars, parseVars>>

\* Lines 183-185: the value handed back after the report stage.
returned_value(result) ==
    [user_facing_paragraph |-> result_get(result, "user_facing_paragraph", "")]

\* Lines 147-185: agent 5 (at most one narrative call), the run log entry and
\* the return.  With all_correct the weaknesses and recommendations are the
\* empty lists of line 106.
PipeAgent5 ==
    /\ \/ pc = "agent4"
       \/ pc = "agent2" /\ all_correct
    /\ \E reply \in IF all_correct THEN {"none"} ELSE LlmReplies :
          LET result == generate_user_facing_response(
                            IF all_correct THEN << >> ELSE course_rec_output.val.weaknesses,
                            IF all_correct THEN << >>
                            ELSE course_rec_output.val.recommendations,
                            agent1_out.current_test_result,
                            agent1_out.history_test_result,
                            all_correct, PyNone, agent2_out.domain_performance, reply)
          IN /\ llm_reply' = reply
             /\ agent5_out' = result
             /\ run_log' = Append(run_log,
                    [status |-> IF all_correct THEN "ok_all_correct" ELSE "ok",
                     final_response |-> result])
             /\ pipeline_result' = Returned(Dict(returned_value(result)))
    /\ calls' = IF all_correct THEN calls ELSE Append(calls, Call("narrative", NoKey))
    /\ stages' = Append(stages, "agent5")
    /\ pc' = "returned"
    /\ UNCHANGED <<df, df_tq, df_ta, df_q, agent1_out, agent2_out>>
    /\ UNCHANGED <<weakness_reply, weaknesses_llm, course_rec_output, ulids>>
    /\ UNCHANGED selVars
    /\ UNCHANGED recVars
    /\ UNCHANGED <<domVars, guardVars, parseVars>>

SpecPipeInit == PipeInit /\ SelIdle /\ RecIdle /\ DomIdle /\ GuardIdle /\ ParseIdle
SpecPipeNext == PipeAgent1 \/ PipeAgent2 \/ PipeAgent3 \/ PipeAgent4 \/ PipeAgent5
SpecPipe == SpecPipeInit /\ [][SpecPipeNext]_vars

(***************************************************************************)
(* main.py: run_pipeline_v1 and its in-flight guard.  Every access to      *)
(* _active_correlation_ids happens inside `with _corr_lock`, so each       *)
(* locked block is one step; between the blocks the requests interleave.   *)
(***************************************************************************)
MaxRequests == 3      \* concurrent requests to run_pipeline_v1

Requests == 1..MaxRequests
CorrelationIds == {"corr_a", "corr_b"}

GuardInit ==
    /\ req_pc = [r \in Requests |-> "arrived"]
    /\ req_corr \in [Requests -> CorrelationIds]
    /\ req_status = [r \in Requests |-> 0]
    /\ active_correlation_ids = {}

\* Lines 116-129: the locked check.  A correlation id in the active set
\* raises 409 before the try block; otherwise the id is added.
Guard(r) ==
    /\ req_pc[r] = "arrived"
    /\ IF req_corr[r] \in active_correlation_ids
       THEN /\ req_pc' = [req_pc EXCEPT ![r] = "rejected"]
            /\ req_status' = [req_status EXCEPT ![r] = 409]
            /\ UNCHANGED active_correlation_ids
       ELSE /\ req_pc' = [req_pc EXCEPT ![r] = "running"]
            /\ active_correlation_ids' = active_correlation_ids \cup {req_corr[r]}
            /\ UNCHANGED req_status
    /\ UNCHANGED req_corr
    /\ UNCHANGED <<selVars, examVars, pipeVars, recVars, domVars, parseVars>>

\* Lines 132-151: run_full_pipeline returns and the status is mapped; the
\* finally clause is still to run.
PipelineReturns(r) ==
    /\ req_pc[r] = "running"
    /\ \E outcome \in {"ok", "agent1_error"} :
          req_status' = [req_status EXCEPT ![r] = IF outcome = "ok" THEN 200 ELSE 404]
    /\ req_pc' = [req_pc EXCEPT ![r] = "finally"]
    /\ UNCHANGED <<req_corr, active_correlation_ids>>
    /\ UNCHANGED <<selVars, examVars, pipeVars, recVars, domVars, parseVars>>

\* run_full_pipeline raises: control is at the matching except clause.
PipelineRaises(r) ==
    /\ req_pc[r] = "running"
    /\ \E outcome \in {"GoogleAPIError", "Exception"} :
          req_status' = [req_status EXCEPT ![r] = IF outcome = "GoogleAPIError" THEN 502 ELSE 500]
    /\ req_pc' = [req_pc EXCEPT ![r] = "except"]
    /\ UNCHANGED <<req_corr, active_correlation_ids>>
    /\ UNCHANGED <<selVars, examVars, pipeVars, recVars, domVars, parseVars>>

\* _active_correlation_ids.discard(correlation_id)
discard(ids, correlation_id) == ids \ {correlation_id}

\* Lines 158-182: the locked discard of the except clause, before the
\* HTTPException is built and raised.
ExceptDiscard(r) ==
    /\ req_pc[r] = "except"
    /\ active_correlation_ids' = discard(active_correlation_ids, req_corr[r])
    /\ req_pc' = [req_pc EXCEPT ![r] = "finally"]
    /\ UNCHANGED <<req_corr, req_status>>
    /\ UNCHANGED <<selVars, examVars, pipeVars, recVars, domVars, parseVars>>

\* Mutant: the finally clause keeps the id.
release_left_out(ids, correlation_id) == ids

\* Lines 183-185: the locked discard of the finally clause.
release(ids, correlation_id) == discard(ids, correlation_id)

\* The finally clause; the request is over after it.
FinallyDiscard(r) ==
    /\ req_pc[r] = "finally"
    /\ active_correlation_ids' = release(active_correlation_ids, req_corr[r])
    /\ req_pc' = [req_pc EXCEPT ![r] = "done"]
    /\ UNCHANGED <<req_corr, req_status>>
    /\ UNCHANGED <<selVars, examVars, pipeVars, recVars, domVars, parseVars>>

SpecGuardInit == GuardInit /\ SelIdle /\ ExamIdle /\ PipeIdle /\ RecIdle /\ DomIdle /\ ParseIdle
SpecGuardNext ==
    \E r \in Requests :
        \/ Guard(r)
        \/ PipelineReturns(r)
        \/ PipelineRaises(r)
        \/ ExceptDiscard(r)
        \/ FinallyDiscard(r)
SpecGuard == SpecGuardInit /\ [][SpecGuardNext]_vars

(***************************************************************************)
(* Claims about the CourseSelector (specification SpecSel)                 *)
(***************************************************************************)
CourseIdsOf(recs) == {recs[i].course : i \in 1..Len(recs)}
WeaknessIdsOf(recs) == {recs[i].weakness_id : i \in 1..Len(recs)}
NoDuplicateCourse(recs) ==
    \A i, j \in 1..Len(recs) : i # j => recs[i].course # recs[j].course
DistinctScores(recs) ==
    \A i, j \in 1..Len(recs) : i # j => recs[i].score # recs[j].score

\* C1: the list returned by _select_final_courses contains no course id more
\* than once.
C1_UniqueCourses == sel_pc = "done" => NoDuplicateCourse(sel_out)

\* C2: when max_total is at least the number of distinct weakness ids with a
\* candidate, every such weakness id has an entry in the output.
C2_Coverage ==
    (sel_pc = "done" /\ max_total >= Cardinality(WeaknessIdsOf(all_recommendations)))
        => WeaknessIdsOf(all_recommendations) \subseteq WeaknessIdsOf(sel_out)

\* C3: the list returned by _select_final_courses is no longer than max_total,
\* for every candidate list, the empty one included.
C3_Bound == sel_pc = "done" => Len(sel_out) <= max_total

\* C3 witness: more candidates than max_total, and the output fills max_total
\* with top picks and fill entries.
C3_Witness ==
    /\ sel_pc = "done"
    /\ Cardinality(CourseIdsOf(all_recommendations)) > max_total
    /\ Cardinality(WeaknessIdsOf(all_recommendations)) < max_total
    /\ Len(sel_out) = max_total

\* C4 as stated: a candidate list and a permutation of it give the same
\* result, equal scores included.
C4_OrderIndependent == sel_pc = "done" => perm_out = sel_out

\* C4 amended: a candidate list and a permutation of it give the same result
\* when no two candidates have equal scores and no two share a course id.
C4_OrderIndependentDistinct ==
    (/\ sel_pc = "done"
     /\ DistinctScores(all_recommendations)
     /\ NoDuplicateCourse(all_recommendations))
        => perm_out = sel_out

\* C4 witness: three candidates of two weaknesses with distinct scores and
\* courses, reordered, with a top-pick part and a fill part in the output.
C4_Witness ==
    /\ sel_pc = "done"
    /\ Len(all_recommendations) = 3
    /\ DistinctScores(all_recommendations)
    /\ NoDuplicateCourse(all_recommendations)
    /\ Cardinality(WeaknessIdsOf(all_recommendations)) = 2
    /\ perm_recommendations # all_recommendations
    /\ Len(sel_out) = 3
    /\ perm_out = sel_out

(***************************************************************************)
(* Claims about the AttemptSelector (specification SpecA1)                 *)
(***************************************************************************)
\* The learner's attempts for the target content, by row label.
Matching == {i \in 1..Len(df) : df[i].userId = student_id /\ df[i].examContentId = test_id}

\* (attemptNumber, createdAt) of a is greater than that of b.
KeyGreater(a, b) ==
    \/ a.attemptNumber > b.attemptNumber
    \/ a.attemptNumber = b.attemptNumber /\ a.createdAt > b.createdAt

CurrentLabel == agent1_out.current_test_result.val.id.val
HistoryIds == agent1_out.history_test_result.val.id.val

\* C8: the current attempt is greatest in the order (attemptNumber, creation
\* timestamp), the prior attempt is greatest among the others, and at most
\* one prior attempt is retained.
C8_AttemptSelection ==
    (pc = "agent1" /\ agent1_out.status = "ok") =>
        /\ CurrentLabel \in Matching
        /\ \A j \in Matching : ~KeyGreater(df[j], df[CurrentLabel])
        /\ Cardinality(DOMAIN HistoryIds) <= 1
        /\ Cardinality(DOMAIN HistoryIds) = 1 <=> Cardinality(Matching) >= 2
        /\ \A l \in DOMAIN HistoryIds :
              /\ HistoryIds[l] \in Matching \ {CurrentLabel}
              /\ \A j \in Matching \ {CurrentLabel} :
                    ~KeyGreater(df[j], df[HistoryIds[l]])

\* C8 witness: attempts 1, 2, 3 with timestamps that do not decrease with the
\* attempt number, stored out of order; the current attempt is number 3 and
\* the prior one is number 2.
C8_Witness ==
    /\ pc = "agent1"
    /\ agent1_out.status = "ok"
    /\ Cardinality(Matching) = 3
    /\ \A i, j \in Matching :
          df[i].attemptNumber < df[j].attemptNumber => df[i].createdAt <= df[j].createdAt
    /\ {df[i].attemptNumber : i \in Matching} = {1, 2, 3}
    /\ df[1].attemptNumber = 2
    /\ agent1_out.current_test_result.val.attemptNumber.val = 3
    /\ \E l \in DOMAIN HistoryIds : df[HistoryIds[l]].attemptNumber = 2

(***************************************************************************)
(* Claims about aggregation and the report (specification SpecExam)        *)
(***************************************************************************)
Agent2Ran == pc \in {"agent2", "done"}

\* The question-result rows of the current attempt, and the answer rows of
\* one question-result row, read from the tables.
CurrentAttemptId == agent1_out.current_test_result.val.id.val
CurrentRows == {i \in 1..Len(df_tq) : df_tq[i].examResultId = CurrentAttemptId}
AnswersOf(i) == {k \in 1..Len(df_ta) : df_ta[k].examResultQuestionId = df_tq[i].id}
HasIncorrectAnswer(i) == \E k \in AnswersOf(i) : ~df_ta[k].isCorrect
EmittedFor(i) ==
    \E c \in 1..Len(agent2_out.incorrect_questions) :
        agent2_out.incorrect_questions[c].testResultQuestionId = df_tq[i].id

\* C5: an IncorrectCase is emitted for a question-result row of the current
\* attempt if and only if at least one of its answer rows is incorrect.
C5_AnyIncorrectRule ==
    (Agent2Ran /\ agent1_out.status = "ok") =>
        \A i \in CurrentRows : EmittedFor(i) <=> HasIncorrectAnswer(i)

\* C5 witness: a question with one incorrect and one correct answer row is
\* emitted.
C5_Witness ==
    /\ Agent2Ran
    /\ agent1_out.status = "ok"
    /\ \E i \in CurrentRows :
          /\ HasIncorrectAnswer(i)
          /\ \E k \in AnswersOf(i) : df_ta[k].isCorrect
          /\ EmittedFor(i)

RowWellFormed(r) ==
    /\ 0 <= r.correct
    /\ r.correct <= r.total
    /\ r.incorrect = r.total - r.correct
    /\ IF r.total > 0
       THEN /\ r.accuracy.tag = "number"
            /\ r.accuracy.den > 0
            /\ r.accuracy.num = r.correct
            /\ r.accuracy.den = r.total
            /\ 0 <= r.accuracy.num
            /\ r.accuracy.num <= r.accuracy.den
       ELSE r.accuracy.tag = "none"

PerformanceWellFormed(perf) ==
    perf.tag = "dict" =>
        /\ \A k \in 1..Len(perf.val.domains) : RowWellFormed(perf.val.domains[k])
        /\ RowWellFormed(perf.val.overall)

\* C6: in every DomainPerformance each domain row and the overall roll-up have
\* 0 <= correct <= total, incorrect = total - correct, accuracy = correct/total
\* in [0,1] when total > 0 and null when total = 0, and no zero denominator.
C6_AccuracyInvariant ==
    (Agent2Ran /\ agent2_out.status \in {"ok", "no_incorrect_answers"}) =>
        /\ PerformanceWellFormed(agent2_out.domain_performance.val.current)
        /\ PerformanceWellFormed(agent2_out.domain_performance.val.history)

\* C6 witness: a current performance with two domains, one fully correct and
\* one fully incorrect.
C6_Witness ==
    /\ Agent2Ran
    /\ agent2_out.status = "ok"
    /\ agent2_out.domain_performance.val.current.tag = "dict"
    /\ LET rows == agent2_out.domain_performance.val.current.val.domains
       IN /\ Len(rows) = 2
          /\ \E k \in 1..2 : rows[k].correct = rows[k].total
          /\ \E k \in 1..2 : rows[k].correct = 0

\* The rows of the current performance that hold row i's question.
DomainOfRow(i) ==
    LET m == SelectSeq(df_q, LAMBDA b : b.id = df_tq[i].questionId)
    IN IF m = << >> \/ m[1].domain = "NaN" THEN "Unknown" ELSE m[1].domain

IncorrectIn(perf, domain) ==
    LET rows == SelectSeq(perf.val.domains, LAMBDA r : r.domain = domain)
    IN IF rows = << >> THEN 0 ELSE rows[1].incorrect

\* C7: in an attempt where some question has answer rows, a question-result
\* row without answer rows is not returned as an IncorrectCase and is not
\* counted as incorrect in its domain or in the overall roll-up.
C7_UnansweredNotIncorrect ==
    (/\ Agent2Ran
     /\ agent1_out.status = "ok"
     /\ \E i \in CurrentRows : AnswersOf(i) # {}) =>
        LET perf == agent2_out.domain_performance.val.current
        IN /\ \A i \in CurrentRows : AnswersOf(i) = {} => ~EmittedFor(i)
           /\ perf.tag = "dict"
           /\ perf.val.overall.incorrect =
                 Cardinality({i \in CurrentRows : HasIncorrectAnswer(i)})
           /\ \A i \in CurrentRows :
                 IncorrectIn(perf, DomainOfRow(i)) =
                     Cardinality({j \in CurrentRows :
                                    DomainOfRow(j) = DomainOfRow(i) /\ HasIncorrectAnswer(j)})

Agent1Ran == pc \in {"agent1", "agent2", "done"}

\* The report was built without the model's text (all-correct template or
\* deterministic fallback).
DeterministicReport == pc = "done" /\ llm_reply \notin {"{report}", "{partial}"}

HistorySentences == {"Previous attempt is on record.", "Previous attempt scored."}

\* C9: with exactly one attempt for the content the prior attempt is reported
\* absent (history_test_result falsy, 'No previous attempts' note added) and
\* the report has an empty progress heading, an empty domain comparison and
\* no previous-attempt sentence.
C9_SingleAttemptNoPrior ==
    (Agent1Ran /\ Cardinality(Matching) = 1) =>
        /\ ~Truthy(agent1_out.history_test_result)
        /\ \E n \in 1..Len(agent1_out.notes) :
              agent1_out.notes[n] =
                "No previous attempts for this test_id (first time taking this test)."
        /\ DeterministicReport =>
              /\ agent5_out.summary.val["Progress Compared to Previous Test"] = ""
              /\ agent5_out.summary.val["Domain Comparison"] = << >>
              /\ \A n \in 1..Len(agent5_out.summary.val["Current Performance"]) :
                    agent5_out.summary.val["Current Performance"][n] \notin HistorySentences

\* An attempt has logged question results and answers.
HasResultsAndAnswers(attempt_id) ==
    \E i \in 1..Len(df_tq) :
        /\ df_tq[i].examResultId = attempt_id
        /\ AnswersOf(i) # {}

DomainsOfAttempt(attempt_id) ==
    {DomainOfRow(i) : i \in {j \in 1..Len(df_tq) : df_tq[j].examResultId = attempt_id}}

\* C10: with two attempts that both have question results and answers,
\* domain_performance.history is computed for the prior attempt and the
\* deterministic report compares every domain present in both attempts.
C10_HistoryAggregated ==
    (/\ Agent2Ran
     /\ Cardinality(Matching) = 2
     /\ \A a \in Matching : HasResultsAndAnswers(df[a].id)) =>
        /\ agent2_out.domain_performance.val.history.tag = "dict"
        /\ (pc = "done" /\ llm_reply \in {"raises", "", "prose"}) =>
              {agent5_out.summary.val["Domain Comparison"][n].domain :
                  n \in 1..Len(agent5_out.summary.val["Domain Comparison"])}
              = DomainsOfAttempt(1) \cap DomainsOfAttempt(2)

(***************************************************************************)
(* Claims about the pipeline (specification SpecPipe)                      *)
(***************************************************************************)
Ran(stage) == \E k \in 1..Len(stages) : stages[k] = stage

CallsOf(kind, key) == {k \in 1..Len(calls) : calls[k] = Call(kind, key)}
CallsOfKind(kind) == {k \in 1..Len(calls) : calls[k].kind = kind}

\* The status of the value run_full_pipeline returned ("" when it has none).
ReturnedStatus ==
    IF pipeline_result.tag = "returned" /\ "status" \in DOMAIN pipeline_result.val.val
    THEN pipeline_result.val.val["status"]
    ELSE ""

\* C11: for every text the weakness generation call returns (empty, None,
\* a JSON or literal scalar, a list of non-objects, prose), weakness
\* extraction raises no exception and returns a list of weakness records.
C11_NeverRaisesOnText ==
    (Ran("agent3") /\ weakness_reply.tag = "text") =>
        /\ pipeline_result.tag # "raised"
        /\ \A k \in 1..Len(weaknesses_llm) : weaknesses_llm[k].tag = "dict"

\* C12: when the aggregation finds zero incorrect cases, no weakness
\* generation, similarity search, re-ranking or narrative call is made, the
\* stages between aggregation and report are not invoked, and the report is
\* the congratulatory template with an empty "Recommended Course" list, an
\* empty recommendations list and an empty "Domain Comparison" list.
C12_AllCorrectShortCircuit ==
    (Ran("agent2") /\ agent2_out.incorrect_questions = << >>) =>
        /\ calls = << >>
        /\ ~Ran("agent3")
        /\ ~Ran("agent4")
        /\ pipeline_result.tag # "raised"
        /\ Ran("agent5") =>
              /\ agent5_out.recommendations = << >>
              /\ DOMAIN agent5_out.summary.val = SectionKeys
              /\ agent5_out.summary.val["Recommended Course"] = << >>
              /\ agent5_out.summary.val["Domain Comparison"] = << >>
              /\ agent5_out.summary.val["Area to be Improved"]
                    = "You achieved full accuracy on this attempt."
              /\ LET perf == agent5_out.summary.val["Current Performance"]
                 IN perf[Len(perf)]
                        = "Congratulations on answering every question correctly!"
        /\ (pc = "returned" /\ agent2_out.status = "no_incorrect_answers") => Ran("agent5")

\* C12 witness: an attempt whose only answer is correct went through the
\* report stage.
C12_Witness ==
    /\ pc = "returned"
    /\ stages = <<"agent1", "agent2", "agent5">>
    /\ agent2_out.status = "no_incorrect_answers"
    /\ agent2_out.total_questions_in_test = 1
    /\ run_log[1].status = "ok_all_correct"

\* The narrative call raised, returned empty text, or returned text that is
\* no JSON object.
NarrativeFailed == llm_reply \in {"raises", "", "prose", "[list]"}

\* C13: when incorrect cases exist and the narrative call raises, returns
\* empty text or text that is no JSON object, the report stage raises
\* nothing and returns the deterministic fallback summary, with one
\* recommendation summary per selected course in the order of the selection.
C13_NarrativeFallback ==
    (Ran("agent5") /\ agent2_out.incorrect_questions # << >> /\ NarrativeFailed) =>
        LET selected == course_rec_output.val.recommendations
            summary == agent5_out.summary
        IN /\ pipeline_result.tag = "returned"
           /\ summary.tag = "dict"
           /\ DOMAIN summary.val = SectionKeys
           /\ summary.val["Area to be Improved"]
                 = "Priority focus areas include the weaknesses."
           /\ Len(summary.val["Recommended Course"]) = Len(selected)
           /\ Len(agent5_out.recommendations) = Len(selected)
           /\ \A i \in 1..Len(selected) :
                 /\ agent5_out.recommendations[i].course_id = selected[i].course
                 /\ agent5_out.recommendations[i].target_weakness_id
                       = selected[i].weakness_id

\* C13 witness: two courses were selected for two weaknesses and the
\* narrative call raised.
C13_Witness ==
    /\ Ran("agent5")
    /\ llm_reply = "raises"
    /\ Len(agent5_out.recommendations) >= 2
    /\ \E i, j \in 1..Len(agent5_out.recommendations) :
          agent5_out.recommendations[i].target_weakness_id
              # agent5_out.recommendations[j].target_weakness_id

\* C14: on every path the summary returned by the report stage holds all six
\* section keys; model text that parses to an object lacking a section key
\* is not used as the report.
C14_WellFormedReport ==
    Ran("agent5") =>
        /\ agent5_out.summary.tag = "dict"
        /\ SectionKeys \subseteq DOMAIN agent5_out.summary.val

\* C15: when the pipeline reached the report stage and the report was
\* built, the value run_full_pipeline returns carries the report's summary
\* sections and its list of recommendation summaries.
C15_ReportDelivered ==
    (pc = "returned" /\ Ran("agent5")) =>
        LET ret == pipeline_result.val.val
        IN \/ /\ "summary" \in DOMAIN ret
              /\ "recommendations" \in DOMAIN ret
           \/ /\ "user_facing_paragraph" \in DOMAIN ret
              /\ ret["user_facing_paragraph"] # ""

(***************************************************************************)
(* Claims about the AttemptSelector's status (specification SpecA1)        *)
(***************************************************************************)
HasRecords == \E i \in 1..Len(df) : df[i].userId = student_id

\* C16: the status is "no_tests_for_student" exactly when the learner has no
\* attempt record at all, "no_current_test" exactly when the learner has
\* records but none for the target content, and "ok" otherwise; in both
\* non-ok cases current_test_result is None and a note is recorded.
C16_StatusDiscriminator ==
    pc = "agent1" =>
        /\ agent1_out.status = "no_tests_for_student" <=> ~HasRecords
        /\ agent1_out.status = "no_current_test" <=> (HasRecords /\ Matching = {})
        /\ agent1_out.status = "ok" <=> Matching # {}
        /\ agent1_out.status # "ok" =>
              /\ agent1_out.current_test_result = PyNone
              /\ agent1_out.notes # << >>

\* C16 witness: the learner has a record for another content and another
\* learner has one for the target content; the status is "no_current_test".
C16_Witness ==
    /\ pc = "agent1"
    /\ agent1_out.status = "no_current_test"
    /\ \E i \in 1..Len(df) : df[i].userId = student_id /\ df[i].examContentId # test_id
    /\ \E i \in 1..Len(df) : df[i].userId # student_id /\ df[i].examContentId = test_id

(***************************************************************************)
(* Claims about the pipeline's early returns (specification SpecPipe)      *)
(***************************************************************************)
\* C17: on an input-absence status the pipeline returns "agent1_error",
\* "agent2_error" or "no_weaknesses" without raising and without invoking a
\* later stage or issuing a later request; from the aggregation stage only
\* "ok" and "no_incorrect_answers" let the pipeline continue.
C17_EarlyHalt ==
    /\ (Ran("agent1") /\ agent1_out.status # "ok") =>
          /\ pc = "returned"
          /\ ReturnedStatus = "agent1_error"
          /\ stages = <<"agent1">>
          /\ calls = << >>
    /\ (Ran("agent2") /\ agent2_out.status \notin {"ok", "no_incorrect_answers"}) =>
          /\ pc = "returned"
          /\ ReturnedStatus = "agent2_error"
          /\ stages = <<"agent1", "agent2">>
          /\ calls = << >>
    /\ (Ran("agent2") /\ agent2_out.status \in {"ok", "no_incorrect_answers"}) =>
          ReturnedStatus # "agent2_error"
    /\ (stages = <<"agent1", "agent2">>
            /\ agent2_out.status \in {"ok", "no_incorrect_answers"}) => pc = "agent2"
    /\ (Ran("agent3") /\ pipeline_result.tag # "raised" /\ weaknesses_llm = << >>) =>
          /\ pc = "returned"
          /\ ReturnedStatus = "no_weaknesses"
          /\ stages = <<"agent1", "agent2", "agent3">>
          /\ calls = <<Call("weakness_generation", NoKey)>>
    /\ pc = "returned" => ~ENABLED SpecPipeNext

\* C17 witness: the model's text held no weakness and the run ended with
\* "no_weaknesses" after one generation call.
C17_Witness ==
    /\ pc = "returned"
    /\ ReturnedStatus = "no_weaknesses"
    /\ weakness_reply.tag = "text"
    /\ weakness_reply.form = "prose"

\* C18: when the similarity search (or anything else inside
\* recommend_courses_for_student) raises, or when no course is recommended,
\* the pipeline raises nothing, makes no narrative call, and returns status
\* "no_course_recommendations" together with the extracted weaknesses.
C18_SearchFailureContained ==
    (Ran("agent4") /\ (course_rec_output = PyNone
                          \/ course_rec_output.val.recommendations = << >>)) =>
        /\ pc = "returned"
        /\ pipeline_result.tag = "returned"
        /\ ReturnedStatus = "no_course_recommendations"
        /\ pipeline_result.val.val["weaknesses_llm"] = weaknesses_llm
        /\ weaknesses_llm # << >>
        /\ ~Ran("agent5")
        /\ CallsOfKind("narrative") = {}

\* C18 witness: the first weakness was searched, the search for the second
\* one raised, and the run ended with "no_course_recommendations".
C18_Witness ==
    /\ pc = "returned"
    /\ ReturnedStatus = "no_course_recommendations"
    /\ course_rec_output = PyNone
    /\ Cardinality(CallsOfKind("similarity_search")) = 2

\* The ids of the weaknesses agent 3 returned.
ExtractedIds == [k \in 1..Len(weaknesses_llm) |-> weaknesses_llm[k].val["id"]]

\* C19: every weakness returned by extract_weaknesses_and_patterns has an id
\* generated in this run, which replaces any id of the model's text; the ids
\* of one run are pairwise distinct; _parse_weaknesses keeps them unchanged.
C19_FreshUniqueIds ==
    /\ \A k \in 1..Len(weaknesses_llm) :
          /\ ExtractedIds[k] \in Range(ulids)
          /\ ExtractedIds[k] # LlmId
    /\ \A j, k \in 1..Len(weaknesses_llm) : j # k => ExtractedIds[j] # ExtractedIds[k]
    /\ (Ran("agent4") /\ course_rec_output # PyNone) =>
          /\ Len(course_rec_output.val.weaknesses) = Len(weaknesses_llm)
          /\ \A k \in 1..Len(weaknesses_llm) :
                course_rec_output.val.weaknesses[k].id = ExtractedIds[k]

\* C19 witness: the model's text held two weaknesses, both carrying the same
\* id of the model's own, and agent 4 parsed them.
C19_Witness ==
    /\ Ran("agent4")
    /\ course_rec_output # PyNone
    /\ weakness_reply.form = "json"
    /\ weakness_reply.value.tag = "list"
    /\ Len(weakness_reply.value.val) = 2
    /\ \A k \in 1..2 : /\ "id" \in DOMAIN weakness_reply.value.val[k].val
                       /\ weakness_reply.value.val[k].val["id"] = LlmId

\* The keys requests were issued for.
CallKeys == {calls[k].key : k \in 1..Len(calls)}

\* C20: in one run each logical step issues its external request at most
\* once and never again after a failure: one weakness generation call, one
\* similarity query per weakness, at most one re-ranking call per weakness,
\* one narrative call.
C20_AtMostOnce ==
    /\ Cardinality(CallsOfKind("weakness_generation")) <= 1
    /\ Cardinality(CallsOfKind("narrative")) <= 1
    /\ \A key \in CallKeys :
          /\ Cardinality(CallsOf("similarity_search", key)) <= 1
          /\ Cardinality(CallsOf("rerank", key)) <= 1
    /\ Cardinality(CallsOfKind("similarity_search")) <= Len(weaknesses_llm)
    /\ Cardinality(CallsOfKind("rerank")) <= Len(weaknesses_llm)
    /\ pipeline_result.tag = "raised" => calls = <<Call("weakness_generation", NoKey)>>

\* C20 witness: a complete run with two weaknesses: one generation call, two
\* similarity queries, two re-ranking calls (an entry kept its search score,
\* so its re-ranking call failed), and one narrative call that raised.
C20_Witness ==
    /\ pc = "returned"
    /\ Ran("agent5")
    /\ llm_reply = "raises"
    /\ Cardinality(CallsOfKind("weakness_generation")) = 1
    /\ Cardinality(CallsOfKind("similarity_search")) = 2
    /\ Cardinality(CallsOfKind("rerank")) = 2
    /\ Cardinality(CallsOfKind("narrative")) = 1
    /\ \E i \in 1..Len(course_rec_output.val.recommendations) :
          course_rec_output.val.recommendations[i].score = 3

(***************************************************************************)
(* Claims about re-ranking and recommend_courses_for_student               *)
(* (specification SpecRec)                                                 *)
(***************************************************************************)
\* The weakness ids of the buckets, in the order of the re-ranking calls.
RerankKeys == bucket_keys(rec_selected, << >>)

\* The entries of a list that belong to one weakness, in their order.
EntriesOf(recs, wid) == SelectSeq(recs, LAMBDA r : r.weakness_id = wid)

\* The re-ranking call of a bucket failed: it raised, its text is not JSON,
\* its JSON is not a list, or an item of its list raised.
RerankFailed(recs, reply) ==
    \/ reply.tag = "raises"
    \/ reply.form \in {"prose", "{object}"}
    \/ /\ reply.form = "[items]"
       /\ \E i \in 1..Len(reply.items) : rescore_item(recs, reply.items[i]).tag = "raised"

\* The (course id, weakness id) pairs of a list.
PairsOf(recs) == {<<recs[i].course, recs[i].weakness_id>> : i \in 1..Len(recs)}

\* C21: when the re-ranking call of one weakness failed, the list returned by
\* _llm_rerank_courses holds exactly that weakness's original entries, with
\* their original scores and reasons, each once and in their original order.
C21_PerWeaknessFallback ==
    (rec_pc = "done" /\ rec_rerank_enabled) =>
        \A k \in 1..Len(rec_rerank) :
            RerankFailed(bucket(rec_selected, RerankKeys[k]), rec_rerank[k]) =>
                EntriesOf(rec_reranked, RerankKeys[k]) = EntriesOf(rec_selected, RerankKeys[k])

\* C22: every entry returned by _llm_rerank_courses has a (course id,
\* weakness id) pair of the list passed in, whatever course ids the answers
\* mention; and when re-ranking returns the empty list (or is disabled) the
\* result of recommend_courses_for_student holds the selection made before.
C22_ClosedOverSelection ==
    rec_pc = "done" =>
        /\ PairsOf(rec_reranked) \subseteq PairsOf(rec_selected)
        /\ (rec_response.tag = "returned" /\ rec_reranked = << >>) =>
                rec_response.val.recommendations = rec_selected

\* C22 witness: an answer named a course that was never a candidate, next to
\* a candidate it rescored, and the re-ranked list was returned.
C22_Witness ==
    /\ rec_pc = "done"
    /\ rec_rerank_enabled
    /\ rec_response.tag = "returned"
    /\ rec_reranked # << >>
    /\ rec_response.val.recommendations = rec_reranked
    /\ \E k \in 1..Len(rec_rerank) :
          /\ rec_rerank[k].tag = "text"
          /\ rec_rerank[k].form = "[items]"
          /\ rec_rerank[k].items = <<RerankItem(9, Scalar(3)), RerankItem(1, Scalar(1))>>

\* C23: in every result of recommend_courses_for_student each
\* recommendation's weakness_id is the id of a weakness of the same result.
C23_ReferentialIntegrity ==
    (rec_pc = "done" /\ rec_response.tag = "returned") =>
        \A i \in 1..Len(rec_response.val.recommendations) :
            \E k \in 1..Len(rec_response.val.weaknesses) :
                rec_response.val.weaknesses[k].id
                    = rec_response.val.recommendations[i].weakness_id

\* C23 witness: two weaknesses, both with recommendations in the result, one
\* of them rescored by the re-ranking call.
C23_Witness ==
    /\ rec_pc = "done"
    /\ rec_response.tag = "returned"
    /\ rec_rerank_enabled
    /\ Len(rec_response.val.weaknesses) = 2
    /\ Cardinality({rec_response.val.recommendations[i].weakness_id :
                        i \in 1..Len(rec_response.val.recommendations)}) = 2
    /\ \E i \in 1..Len(rec_response.val.recommendations) :
          rec_response.val.recommendations[i].reason = "fits the weakness"

\* C28: the list returned by _llm_rerank_courses holds each (course id,
\* weakness id) pair at most once and is no longer than the list passed in.
C28_RerankKeepsSet ==
    (rec_pc = "done" /\ rec_rerank_enabled) =>
        /\ \A i, j \in 1..Len(rec_reranked) :
              (i # j) => <<rec_reranked[i].course, rec_reranked[i].weakness_id>>
                            # <<rec_reranked[j].course, rec_reranked[j].weakness_id>>
        /\ Len(rec_reranked) <= Len(rec_selected)

(***************************************************************************)
(* Top picks of the CourseSelector (specification SpecSel)                 *)
(***************************************************************************)
\* The candidate of a weakness with the highest score, the first in the
\* input among those of equal score.
TopPickOf(recs, wid) ==
    LET idx == {i \in 1..Len(recs) : recs[i].weakness_id = wid}
        best == CHOOSE i \in idx :
                    \A j \in idx : \/ recs[j].score < recs[i].score
                                   \/ recs[j].score = recs[i].score /\ i <= j
    IN recs[best]

TopPicks(recs) == {TopPickOf(recs, wid) : wid \in WeaknessIdsOf(recs)}

DistinctTopCourses(recs) ==
    \A v, w \in WeaknessIdsOf(recs) :
        v # w => TopPickOf(recs, v).course # TopPickOf(recs, w).course

SortedDesc(recs) ==
    \A i, j \in 1..Len(recs) : i < j => recs[i].score >= recs[j].score

\* The top pick kept for every weakness is the one TopPickOf describes.
TopPicksAsDescribed ==
    LET top == top_per_weakness(all_recommendations)
    IN /\ Len(top) = Cardinality(WeaknessIdsOf(all_recommendations))
       /\ \A i \in 1..Len(top) :
             top[i] = TopPickOf(all_recommendations, top[i].weakness_id)

\* C24 as stated: the top pick of a weakness is its highest-scoring
\* candidate, the first of those with equal score; and when the top picks
\* have pairwise distinct courses the output begins with the top picks in
\* descending score, followed by the fill entries in descending score.
C24_TopPicksThenFill ==
    sel_pc = "done" =>
        LET n == Cardinality(WeaknessIdsOf(all_recommendations))
        IN /\ TopPicksAsDescribed
           /\ DistinctTopCourses(all_recommendations) =>
                /\ Len(sel_out) >= n
                /\ {sel_out[i] : i \in 1..n} = TopPicks(all_recommendations)
                /\ SortedDesc(SubSeq(sel_out, 1, n))
                /\ \A i \in (n + 1)..Len(sel_out) :
                      sel_out[i] \notin TopPicks(all_recommendations)
                /\ SortedDesc(SubSeq(sel_out, n + 1, Len(sel_out)))

\* C24 amended: as stated, for the output before it is cut to max_total
\* entries: with fewer slots than top picks the output is the max_total
\* highest-scoring top picks in descending score.
C24_TopPicksThenFillCut ==
    sel_pc = "done" =>
        LET n == Cardinality(WeaknessIdsOf(all_recommendations))
            k == IF n < max_total THEN n ELSE max_total
            tops == TopPicks(all_recommendations)
        IN /\ TopPicksAsDescribed
           /\ DistinctTopCourses(all_recommendations) =>
                /\ Len(sel_out) >= k
                /\ {sel_out[i] : i \in 1..k} \subseteq tops
                /\ Cardinality({sel_out[i] : i \in 1..k}) = k
                /\ \A t \in tops \ {sel_out[i] : i \in 1..k} :
                      \A i \in 1..k : sel_out[i].score >= t.score
                /\ SortedDesc(SubSeq(sel_out, 1, k))
                /\ \A i \in (k + 1)..Len(sel_out) : sel_out[i] \notin tops
                /\ SortedDesc(SubSeq(sel_out, k + 1, Len(sel_out)))

\* C24 witness: two candidates of one weakness with equal scores, a second
\* weakness whose top pick is another course and scores higher, and room for
\* a fill entry.
C24_Witness ==
    /\ sel_pc = "done"
    /\ Len(all_recommendations) = 3
    /\ all_recommendations[1].weakness_id = all_recommendations[2].weakness_id
    /\ all_recommendations[1].score = all_recommendations[2].score
    /\ all_recommendations[1].course # all_recommendations[2].course
    /\ all_recommendations[3].weakness_id # all_recommendations[1].weakness_id
    /\ all_recommendations[3].score > all_recommendations[1].score
    /\ all_recommendations[3].course \notin
            {all_recommendations[1].course, all_recommendations[2].course}
    /\ max_total = 3
    /\ sel_out = <<all_recommendations[3], all_recommendations[1], all_recommendations[2]>>

(***************************************************************************)
(* Domain comparison (specification SpecDom)                               *)
(***************************************************************************)
\* The domain rows of one side of domain_performance ([] when it is absent).
DomainRows(side) == IF side.tag = "dict" THEN side.val.domains ELSE << >>

\* The domains with a row of non-null accuracy.
ScoredDomains(rows) ==
    {rows[i].domain : i \in {j \in 1..Len(rows) : rows[j].accuracy.tag # "none"}}

\* The accuracy of a domain's row.
AccuracyOf(rows, domain) ==
    LET i == CHOOSE j \in 1..Len(rows) : rows[j].domain = domain
    IN rows[i].accuracy

\* C25: _domain_improvement_summaries emits exactly one entry for each domain
\* that occurs in both the current and the prior DomainPerformance with
\* non-null accuracy, and none for another domain; the label is 'Improved'
\* when current accuracy >= prior accuracy and 'Declined' otherwise; the
\* result is empty when prior performance is absent.
C25_DomainComparisonRule ==
    (dom_pc = "done" /\ dom_performance.tag = "dict") =>
        LET curr == DomainRows(dom_performance.val.current)
            hist == DomainRows(dom_performance.val.history)
            both == ScoredDomains(curr) \cap ScoredDomains(hist)
        IN /\ dom_performance.val.history.tag = "none" => dom_summaries = << >>
           /\ {dom_summaries[n].domain : n \in 1..Len(dom_summaries)} = both
           /\ Len(dom_summaries) = Cardinality(both)
           /\ \A n \in 1..Len(dom_summaries) :
                 LET c == AccuracyOf(curr, dom_summaries[n].domain)
                     h == AccuracyOf(hist, dom_summaries[n].domain)
                 IN dom_summaries[n].direction =
                        IF c.num * h.den >= h.num * c.den THEN "Improved" ELSE "Declined"

\* C25 witness: Math kept its accuracy of one half (1 of 2, then 1 of 2) and
\* is labelled 'Improved'; Reading is in both attempts but has no accuracy
\* in the prior one, and has no entry.
C25_Witness ==
    /\ dom_pc = "done"
    /\ dom_performance.tag = "dict"
    /\ Len(DomainRows(dom_performance.val.current)) = 2
    /\ Len(DomainRows(dom_performance.val.history)) = 2
    /\ dom_performance.val.history.val.domains[2].accuracy.tag = "none"
    /\ Len(dom_summaries) = 1
    /\ dom_summaries[1].domain = "Math"
    /\ dom_summaries[1].direction = "Improved"
    /\ dom_summaries[1].from = Frac(1, 2)
    /\ dom_summaries[1].to = Frac(1, 2)

(***************************************************************************)
(* Parser cascade (specification SpecParse)                                *)
(***************************************************************************)
\* What a text is, apart from how the function reads it.
JsonReadable(text) == text.form \in {"json", "json|literal", "json|fields"}
LiteralReadable(text) ==
    text.form \in {"literal", "json|literal", "json|fields", "literal|fields"}
JsonValueOf(text) == text.value
LiteralValueOf(text) ==
    IF text.form = "json|literal" THEN text.literal_value ELSE text.value
FieldsLabelled(text) ==
    IF text.form \in {"fields", "json|fields", "literal|fields"} THEN text.fields ELSE {}

\* A list stays, a single value becomes a one-element list.
Promoted(v) == IF v.tag = "list" THEN v.val ELSE <<v>>

\* C26: the strict JSON tier is tried first, the literal tier only if the
\* JSON tier failed, and the field-extraction tier only if both failed; a
\* parsed single object is promoted to a one-element list; the
\* field-extraction tier returns at most one record holding only the fields
\* it found, and the empty list when it found none.
C26_CascadeOrder ==
    /\ \E n \in 0..3 : parse_tried = SubSeq(<<"json", "literal", "regex">>, 1, n)
    /\ "literal" \in Range(parse_tried) => ~JsonReadable(parse_text)
    /\ "regex" \in Range(parse_tried) =>
            ~JsonReadable(parse_text) /\ ~LiteralReadable(parse_text)
    /\ parse_pc = "returned" =>
          IF JsonReadable(parse_text)
          THEN parse_out = Promoted(JsonValueOf(parse_text))
          ELSE IF LiteralReadable(parse_text)
          THEN parse_out = Promoted(LiteralValueOf(parse_text))
          ELSE /\ Len(parse_out) <= 1
               /\ (FieldsLabelled(parse_text) = {}) <=> (parse_out = << >>)
               /\ parse_out # << >> =>
                     /\ parse_out[1].tag = "dict"
                     /\ DOMAIN parse_out[1].val = FieldsLabelled(parse_text)

\* C26 witness: a text that is JSON and, with another value, a Python
\* literal was read as JSON, and its single object was promoted to a list.
C26_Witness ==
    /\ parse_pc = "returned"
    /\ parse_text.form = "json|literal"
    /\ parse_tried = <<"json">>
    /\ parse_out = <<parse_text.value>>
    /\ parse_text.value # parse_text.literal_value

(***************************************************************************)
(* Agreement of the incorrect counts (specification SpecExam)              *)
(***************************************************************************)
\* C27: whenever get_incorrect_question_cases returns status 'ok' or
\* 'no_incorrect_answers', total_incorrect_questions equals the number of
\* IncorrectCases returned and domain_performance.current.overall.incorrect,
\* and domain_performance.current.overall.total equals
\* total_questions_in_test.
C27_IncorrectCountsAgree ==
    (Agent2Ran /\ agent2_out.status \in {"ok", "no_incorrect_answers"}) =>
        /\ agent2_out.total_incorrect_questions = Len(agent2_out.incorrect_questions)
        /\ agent2_out.domain_performance.val.current.tag = "dict"
        /\ agent2_out.domain_performance.val.current.val.overall.incorrect
              = agent2_out.total_incorrect_questions
        /\ agent2_out.domain_performance.val.current.val.overall.total
              = agent2_out.total_questions_in_test

(***************************************************************************)
(* The in-flight guard of run_pipeline_v1 (specification SpecGuard)        *)
(***************************************************************************)
\* The requests whose correlation id is cid and that were admitted and have
\* not yet left the handler.
InFlight(cid) ==
    {r \in Requests : req_corr[r] = cid /\ req_pc[r] \in {"running", "except", "finally"}}

\* The requests with correlation id cid that are executing run_full_pipeline.
Executing(cid) ==
    {r \in Requests : req_corr[r] = cid /\ req_pc[r] = "running"}

\* C29: under any interleaving of concurrent requests, at most one request
\* per correlation id is executing run_full_pipeline at any time, and the id
\* of a request executing run_full_pipeline is in the active set, so that an
\* arriving request with that id is rejected with 409.
C29_MutualExclusion ==
    \A cid \in CorrelationIds :
        /\ Cardinality(Executing(cid)) <= 1
        /\ Executing(cid) # {} => cid \in active_correlation_ids

\* C30: every admitted request removes its correlation id from the active
\* set when it finishes, after a normal return, a 502 and a 500 alike, so an
\* id stays in the active set only while an admitted request with that id
\* has not finished; a request rejected with 409 leaves the active set as it
\* was.
C30_GuardRelease ==
    /\ [](\A cid \in active_correlation_ids : InFlight(cid) # {})
    /\ [][\A r \in Requests :
            /\ (req_pc[r] # "done" /\ req_pc'[r] = "done")
                  => req_corr[r] \notin active_correlation_ids'
            /\ (req_pc[r] # "rejected" /\ req_pc'[r] = "rejected")
                  => /\ req_status'[r] = 409
                     /\ active_correlation_ids' = active_correlation_ids]_vars

\* Witness for C30: one request finished after a 502 or a 500, a later
\* request with the same id was admitted and is running, and a third with
\* that id was rejected, the id still being in the active set.
C30_Witness ==
    \E r1, r2, r3 \in Requests :
        /\ req_corr[r1] = req_corr[r2] /\ req_corr[r2] = req_corr[r3]
        /\ req_pc[r1] = "done" /\ req_status[r1] \in {500, 502}
        /\ req_pc[r2] = "running"
        /\ req_pc[r3] = "rejected" /\ req_status[r3] = 409
        /\ req_corr[r2] \in active_correlation_ids

====
